---- MODULE Spec2Model ----
(***************************************************************************)
(* MathGuru: the topic graph, the progress service (localStorage record),  *)
(* and the Index component's state, effects and handlers.                  *)
(*                                                                         *)
(* Strings that the code only compares (topic ids) are TLA+ strings.       *)
(* completionRate is a JavaScript number; it is kept as the exact fraction *)
(* num/den it is computed from.  lastActivity (Date.now()) is written by   *)
(* saveProgress and read by nothing; it is left out of the record.         *)
(***************************************************************************)
EXTENDS Integers, Sequences, FiniteSets, TLC

VARIABLES
  stored,          \* localStorage['math-guru-progress']: NoItem or Item(record)
  recorded,        \* history: the recordQuizResult calls made since the item was last absent/initial
  topics,          \* Index state `topics`: topics[i] holds the flags of the i-th
                   \* topic; id and connectedTopics are those of GALAXY_TOPICS[i]
  capturedTopics,  \* Index state `capturedTopics` of the committed render
  unlockedTopics,  \* Index state `unlockedTopics` of the committed render
  nextCaptured,    \* `capturedTopics` after the queued setCapturedTopics updates
  nextUnlocked,    \* `unlockedTopics` after the queued setUnlockedTopics updates
  dirty,           \* a state update is queued: React will render again
  effects,         \* effects of the committed render still to run, in order
  currentTopic,    \* Index state `currentTopic`: <<>> (null) or <<id>>
  stage,           \* LearningSession state `stage`
  timers,          \* pending setTimeout callbacks of handleQuizComplete
  isLoadingAI,     \* Index state `isLoadingAI`
  inflight,        \* handleQuerySubmit calls awaiting generateChatResponse
  aiResponse,      \* Index state `aiResponse`: <<>> (null) or <<[unlockedTopics |-> ...]>>
  showAiModal,     \* Index state `showAiModal`
  mounted,         \* the React tree is mounted (no render has thrown)
  quiz,            \* a Quiz component on its own: props, state and onComplete calls
  match,           \* a getTopicsFromQuery call on its own: query, called, result
  reported,        \* history: the ids handleQuerySubmit found newly unlockable, in order
  ai,              \* a call of the AI service on its own: function, position, the
                   \* POST sent or not, the server's response text, the result
  callResult       \* how the last operation on a possibly corrupt item ended:
                   \* "none" (no operation yet), "returned" or "threw"

\* the state of the units that are also run on their own
unitVars == <<quiz, callResult, match, ai>>

vars == <<stored, recorded, topics, capturedTopics, unlockedTopics, nextCaptured,
          nextUnlocked, dirty, effects, currentTopic, stage, timers, isLoadingAI,
          inflight, aiResponse, showAiModal, mounted, reported, unitVars>>

appVars == <<topics, capturedTopics, unlockedTopics, nextCaptured, nextUnlocked,
             dirty, effects, currentTopic, stage, timers, isLoadingAI, inflight,
             aiResponse, showAiModal, mounted>>

----------------------------------------------------------------------------
(* Array helpers (JavaScript Array.prototype)                               *)

Range(s) == {s[i] : i \in DOMAIN s}

\* s.includes(x)
Includes(s, x) == \E i \in DOMAIN s : s[i] = x

\* no value occurs at two indexes
NoDuplicates(s) == \A i, j \in DOMAIN s : s[i] = s[j] => i = j

Max(a, b) == IF a >= b THEN a ELSE b

----------------------------------------------------------------------------
(* Topic graph store                                                        *)

GALAXY_TOPICS ==
  <<
     [id |-> "algebra-overview", connectedTopics |-> <<"linear-equations", "systems-of-equations", "polynomials">>,
      captured |-> FALSE, unlocked |-> FALSE],
     [id |-> "linear-equations", connectedTopics |-> <<"algebra-overview", "systems-of-equations">>,
      captured |-> FALSE, unlocked |-> FALSE],
     [id |-> "systems-of-equations", connectedTopics |-> <<"linear-equations", "algebra-overview", "matrices">>,
      captured |-> FALSE, unlocked |-> FALSE],
     [id |-> "polynomials", connectedTopics |-> <<"algebra-overview", "rational-functions">>,
      captured |-> FALSE, unlocked |-> FALSE],
     [id |-> "matrices", connectedTopics |-> <<"systems-of-equations">>,
      captured |-> FALSE, unlocked |-> FALSE],
     [id |-> "rational-functions", connectedTopics |-> <<"polynomials">>,
      captured |-> FALSE, unlocked |-> FALSE],
     [id |-> "quadratic-equations", connectedTopics |-> <<"quadratic-formula", "parabola-graphs", "factorization", "algebra-overview">>,
      captured |-> FALSE, unlocked |-> TRUE],
     [id |-> "quadratic-formula", connectedTopics |-> <<"quadratic-equations", "discriminant", "complex-roots">>,
      captured |-> FALSE, unlocked |-> FALSE],
     [id |-> "parabola-graphs", connectedTopics |-> <<"quadratic-equations", "vertex-form", "real-world-applications">>,
      captured |-> FALSE, unlocked |-> FALSE],
     [id |-> "vertex-form", connectedTopics |-> <<"parabola-graphs", "completing-square">>,
      captured |-> FALSE, unlocked |-> FALSE],
     [id |-> "completing-square", connectedTopics |-> <<"vertex-form", "quadratic-formula", "quadratic-equations">>,
      captured |-> FALSE, unlocked |-> FALSE],
     [id |-> "discriminant", connectedTopics |-> <<"quadratic-formula", "complex-roots">>,
      captured |-> FALSE, unlocked |-> FALSE],
     [id |-> "factorization", connectedTopics |-> <<"quadratic-equations", "quadratic-formula">>,
      captured |-> FALSE, unlocked |-> FALSE],
     [id |-> "real-world-applications", connectedTopics |-> <<"parabola-graphs", "vertex-form">>,
      captured |-> FALSE, unlocked |-> FALSE],
     [id |-> "complex-roots", connectedTopics |-> <<"discriminant", "quadratic-formula">>,
      captured |-> FALSE, unlocked |-> FALSE],
     [id |-> "geometry-basics", connectedTopics |-> <<"triangles", "quadrilaterals", "circles", "area-volume">>,
      captured |-> FALSE, unlocked |-> FALSE],
     [id |-> "triangles", connectedTopics |-> <<"geometry-basics", "trigonometric-functions">>,
      captured |-> FALSE, unlocked |-> FALSE],
     [id |-> "quadrilaterals", connectedTopics |-> <<"geometry-basics">>,
      captured |-> FALSE, unlocked |-> FALSE],
     [id |-> "circles", connectedTopics |-> <<"geometry-basics", "area-volume">>,
      captured |-> FALSE, unlocked |-> FALSE],
     [id |-> "area-volume", connectedTopics |-> <<"geometry-basics", "circles", "coordinate-geometry">>,
      captured |-> FALSE, unlocked |-> FALSE],
     [id |-> "coordinate-geometry", connectedTopics |-> <<"area-volume">>,
      captured |-> FALSE, unlocked |-> FALSE],
     [id |-> "trigonometric-functions", connectedTopics |-> <<"triangles", "trig-identities", "trig-equations", "inverse-trig">>,
      captured |-> FALSE, unlocked |-> FALSE],
     [id |-> "trig-identities", connectedTopics |-> <<"trigonometric-functions", "trig-equations">>,
      captured |-> FALSE, unlocked |-> FALSE],
     [id |-> "trig-equations", connectedTopics |-> <<"trig-identities", "trigonometric-functions">>,
      captured |-> FALSE, unlocked |-> FALSE],
     [id |-> "inverse-trig", connectedTopics |-> <<"trigonometric-functions">>,
      captured |-> FALSE, unlocked |-> FALSE],
     [id |-> "limits", connectedTopics |-> <<"derivatives", "calculus-overview", "functions-analysis">>,
      captured |-> FALSE, unlocked |-> FALSE],
     [id |-> "functions-analysis", connectedTopics |-> <<"limits", "series-sequences">>,
      captured |-> FALSE, unlocked |-> FALSE],
     [id |-> "derivatives", connectedTopics |-> <<"limits", "integrals", "applications-derivatives">>,
      captured |-> FALSE, unlocked |-> FALSE],
     [id |-> "integrals", connectedTopics |-> <<"derivatives", "applications-integrals">>,
      captured |-> FALSE, unlocked |-> FALSE],
     [id |-> "applications-derivatives", connectedTopics |-> <<"derivatives">>,
      captured |-> FALSE, unlocked |-> FALSE],
     [id |-> "applications-integrals", connectedTopics |-> <<"integrals">>,
      captured |-> FALSE, unlocked |-> FALSE],
     [id |-> "basic-statistics", connectedTopics |-> <<"probability", "data-analysis", "regression">>,
      captured |-> FALSE, unlocked |-> FALSE],
     [id |-> "probability", connectedTopics |-> <<"basic-statistics", "statistics-inference">>,
      captured |-> FALSE, unlocked |-> FALSE],
     [id |-> "data-analysis", connectedTopics |-> <<"basic-statistics", "regression">>,
      captured |-> FALSE, unlocked |-> FALSE],
     [id |-> "regression", connectedTopics |-> <<"data-analysis", "basic-statistics">>,
      captured |-> FALSE, unlocked |-> FALSE],
     [id |-> "statistics-inference", connectedTopics |-> <<"probability">>,
      captured |-> FALSE, unlocked |-> FALSE],
     [id |-> "future-topic-1", connectedTopics |-> <<"algebra-overview">>,
      captured |-> FALSE, unlocked |-> FALSE],
     [id |-> "future-topic-2", connectedTopics |-> <<"linear-equations">>,
      captured |-> FALSE, unlocked |-> FALSE],
     [id |-> "future-topic-3", connectedTopics |-> <<"systems-of-equations">>,
      captured |-> FALSE, unlocked |-> FALSE],
     [id |-> "future-topic-4", connectedTopics |-> <<"matrices">>,
      captured |-> FALSE, unlocked |-> FALSE],
     [id |-> "future-topic-5", connectedTopics |-> <<"limits">>,
      captured |-> FALSE, unlocked |-> FALSE],
     [id |-> "future-topic-6", connectedTopics |-> <<"derivatives">>,
      captured |-> FALSE, unlocked |-> FALSE],
     [id |-> "future-topic-7", connectedTopics |-> <<"integrals">>,
      captured |-> FALSE, unlocked |-> FALSE],
     [id |-> "future-topic-8", connectedTopics |-> <<"basic-statistics">>,
      captured |-> FALSE, unlocked |-> FALSE],
     [id |-> "future-topic-9", connectedTopics |-> <<"probability">>,
      captured |-> FALSE, unlocked |-> FALSE],
     [id |-> "future-topic-10", connectedTopics |-> <<"regression">>,
      captured |-> FALSE, unlocked |-> FALSE],
     [id |-> "future-topic-11", connectedTopics |-> <<"future-topic-1">>,
      captured |-> FALSE, unlocked |-> FALSE],
     [id |-> "future-topic-12", connectedTopics |-> <<"future-topic-6">>,
      captured |-> FALSE, unlocked |-> FALSE],
     [id |-> "future-topic-13", connectedTopics |-> <<"future-topic-9">>,
      captured |-> FALSE, unlocked |-> FALSE],
     [id |-> "future-topic-14", connectedTopics |-> <<"trigonometric-functions">>,
      captured |-> FALSE, unlocked |-> FALSE],
     [id |-> "future-topic-15", connectedTopics |-> <<"parabola-graphs">>,
      captured |-> FALSE, unlocked |-> FALSE],
     [id |-> "future-topic-16", connectedTopics |-> <<"future-topic-11">>,
      captured |-> FALSE, unlocked |-> FALSE],
     [id |-> "future-topic-17", connectedTopics |-> <<"future-topic-1">>,
      captured |-> FALSE, unlocked |-> FALSE],
     [id |-> "future-topic-18", connectedTopics |-> <<"future-topic-3">>,
      captured |-> FALSE, unlocked |-> FALSE],
     [id |-> "future-topic-19", connectedTopics |-> <<"future-topic-4">>,
      captured |-> FALSE, unlocked |-> FALSE],
     [id |-> "future-topic-20", connectedTopics |-> <<"future-topic-1">>,
      captured |-> FALSE, unlocked |-> FALSE],
     [id |-> "future-topic-21", connectedTopics |-> <<"future-topic-14">>,
      captured |-> FALSE, unlocked |-> FALSE],
     [id |-> "future-topic-22", connectedTopics |-> <<"future-topic-15">>,
      captured |-> FALSE, unlocked |-> FALSE],
     [id |-> "future-topic-23", connectedTopics |-> <<"trigonometric-functions">>,
      captured |-> FALSE, unlocked |-> FALSE],
     [id |-> "future-topic-24", connectedTopics |-> <<"future-topic-14">>,
      captured |-> FALSE, unlocked |-> FALSE],
     [id |-> "future-topic-25", connectedTopics |-> <<"future-topic-12">>,
      captured |-> FALSE, unlocked |-> FALSE],
     [id |-> "future-topic-26", connectedTopics |-> <<"future-topic-5">>,
      captured |-> FALSE, unlocked |-> FALSE],
     [id |-> "future-topic-27", connectedTopics |-> <<"future-topic-7">>,
      captured |-> FALSE, unlocked |-> FALSE],
     [id |-> "future-topic-28", connectedTopics |-> <<"future-topic-13">>,
      captured |-> FALSE, unlocked |-> FALSE],
     [id |-> "future-topic-29", connectedTopics |-> <<"future-topic-10">>,
      captured |-> FALSE, unlocked |-> FALSE],
     [id |-> "future-topic-30", connectedTopics |-> <<"future-topic-8">>,
      captured |-> FALSE, unlocked |-> FALSE],
     [id |-> "future-topic-31", connectedTopics |-> <<"future-topic-16">>,
      captured |-> FALSE, unlocked |-> FALSE],
     [id |-> "future-topic-32", connectedTopics |-> <<"future-topic-17">>,
      captured |-> FALSE, unlocked |-> FALSE],
     [id |-> "future-topic-33", connectedTopics |-> <<"future-topic-18">>,
      captured |-> FALSE, unlocked |-> FALSE],
     [id |-> "future-topic-34", connectedTopics |-> <<"future-topic-19">>,
      captured |-> FALSE, unlocked |-> FALSE],
     [id |-> "future-topic-35", connectedTopics |-> <<"future-topic-20">>,
      captured |-> FALSE, unlocked |-> FALSE],
     [id |-> "future-topic-36", connectedTopics |-> <<"future-topic-21">>,
      captured |-> FALSE, unlocked |-> FALSE],
     [id |-> "future-topic-37", connectedTopics |-> <<"future-topic-22">>,
      captured |-> FALSE, unlocked |-> FALSE],
     [id |-> "future-topic-38", connectedTopics |-> <<"future-topic-23">>,
      captured |-> FALSE, unlocked |-> FALSE],
     [id |-> "future-topic-39", connectedTopics |-> <<"future-topic-24">>,
      captured |-> FALSE, unlocked |-> FALSE],
     [id |-> "future-topic-40", connectedTopics |-> <<"future-topic-25">>,
      captured |-> FALSE, unlocked |-> FALSE],
     [id |-> "future-topic-41", connectedTopics |-> <<"future-topic-26">>,
      captured |-> FALSE, unlocked |-> FALSE],
     [id |-> "future-topic-42", connectedTopics |-> <<"future-topic-27">>,
      captured |-> FALSE, unlocked |-> FALSE],
     [id |-> "future-topic-43", connectedTopics |-> <<"future-topic-28">>,
      captured |-> FALSE, unlocked |-> FALSE],
     [id |-> "future-topic-44", connectedTopics |-> <<"future-topic-29">>,
      captured |-> FALSE, unlocked |-> FALSE],
     [id |-> "future-topic-45", connectedTopics |-> <<"future-topic-30">>,
      captured |-> FALSE, unlocked |-> FALSE]
  >>

ROOT_TOPIC == "quadratic-equations"

TopicIds == {GALAXY_TOPICS[i].id : i \in DOMAIN GALAXY_TOPICS}

\* GALAXY_TOPICS.find(topic => topic.id === id): <<>> (undefined) or <<topic>>
getTopicById(id) ==
  LET hits == {i \in DOMAIN GALAXY_TOPICS : GALAXY_TOPICS[i].id = id}
  IN  IF hits = {} THEN <<>>
      ELSE <<GALAXY_TOPICS[CHOOSE i \in hits : \A j \in hits : i <= j]>>

\* faulty variant: without the `if (!topic) return false` guard an id of no topic
\* is judged by the captured list
shouldUnlockTopic_unguarded(topicId, captured) ==
  LET found == getTopicById(topicId)
  IN  IF found = <<>> THEN Includes(captured, topicId)
      ELSE IF found[1].unlocked THEN TRUE
      ELSE \E k \in DOMAIN found[1].connectedTopics :
             Includes(captured, found[1].connectedTopics[k])

\* faulty variant: the neighbour test is inverted
shouldUnlockTopic_inverted(topicId, captured) ==
  LET found == getTopicById(topicId)
  IN  IF found = <<>> THEN FALSE
      ELSE IF found[1].unlocked THEN TRUE
      ELSE ~\E k \in DOMAIN found[1].connectedTopics :
              Includes(captured, found[1].connectedTopics[k])

\* shouldUnlockTopic(topicId, capturedTopics)
shouldUnlockTopic(topicId, captured) ==
  LET found == getTopicById(topicId)
  IN  IF found = <<>> THEN FALSE
      ELSE IF found[1].unlocked THEN TRUE
      ELSE \E k \in DOMAIN found[1].connectedTopics :
             Includes(captured, found[1].connectedTopics[k])

----------------------------------------------------------------------------
(* Progress service                                                         *)

NoItem == [kind |-> "none"]
Item(progress) == [kind |-> "record", progress |-> progress]

\* `const totalTopics = 40`
totalTopics == 40

Rate(num, den) == [num |-> num, den |-> den]

\* {}: a map with no key
EmptyMap == [k \in {} |-> 0]

getDefaultProgress ==
  [capturedTopics |-> <<>>,
   unlockedTopics |-> <<ROOT_TOPIC>>,
   quizAttempts   |-> EmptyMap,
   quizScores     |-> EmptyMap,
   completionRate |-> Rate(0, 1)]

\* loadProgress() || getDefaultProgress()
loadOrDefault(item) ==
  IF item.kind = "record" THEN item.progress ELSE getDefaultProgress

\* saveProgress(progress): setItem(JSON.stringify({...progress, lastActivity}))
saveProgress(progress) == Item(progress)

\* { ...current, ...updates }: every key of updates replaces that key of current
Merge(current, updates) ==
  [k \in DOMAIN current \cup DOMAIN updates |->
     IF k \in DOMAIN updates THEN updates[k] ELSE current[k]]

\* updateProgress(updates), as the new value of the stored item
updateProgress(item, updates) == saveProgress(Merge(loadOrDefault(item), updates))

\* obj[key] || 0 for the number maps quizAttempts and quizScores
Get(map, key) == IF key \in DOMAIN map THEN map[key] ELSE 0

\* { ...map, [key]: value }
Put(map, key, value) ==
  [k \in DOMAIN map \cup {key} |-> IF k = key THEN value ELSE map[k]]

\* faulty variant: the latest score replaces the best one
newScore_overwrite(currentScore, score) == score

\* Math.max(currentScore, score)
newScore(currentScore, score) == Max(currentScore, score)

\* faulty variant: the count restarts instead of growing
attempts_reset(quizAttempts, topicId) == 1

\* (progress.quizAttempts[topicId] || 0) + 1
attempts(quizAttempts, topicId) == Get(quizAttempts, topicId) + 1

\* faulty variant: the membership test is dropped
captured_always_append(captured, topicId, passed) ==
  IF passed THEN Append(captured, topicId) ELSE captured

\* faulty variant: a pass replaces the list instead of extending it
captured_replace(captured, topicId, passed) ==
  IF passed THEN <<topicId>> ELSE captured

\* faulty variant: the passed flag is ignored
captured_ignore_passed(captured, topicId, passed) ==
  IF ~Includes(captured, topicId) THEN Append(captured, topicId) ELSE captured

\* passed && !capturedTopics.includes(topicId) ? [...capturedTopics, topicId] : capturedTopics
capturedAfter(captured, topicId, passed) ==
  IF passed /\ ~Includes(captured, topicId)
  THEN Append(captured, topicId)
  ELSE captured

\* recordQuizResult(topicId, score, passed), as the new value of the stored item
recordQuizResult(item, topicId, score, passed) ==
  LET progress == loadOrDefault(item)
      captured == capturedAfter(progress.capturedTopics, topicId, passed)
  IN  updateProgress(item,
        [capturedTopics |-> captured,
         quizAttempts   |-> Put(progress.quizAttempts, topicId,
                                attempts(progress.quizAttempts, topicId)),
         quizScores     |-> Put(progress.quizScores, topicId,
                                newScore(Get(progress.quizScores, topicId), score)),
         completionRate |-> Rate(Len(captured) * 100, totalTopics)])

----------------------------------------------------------------------------
(* Keyword discovery matcher.  A JavaScript string is the sequence of its   *)
(* characters.                                                              *)

\* Object.entries(KEYWORD_TOPIC_MAP), in insertion order; a keyword is its characters
KEYWORD_TOPIC_MAP ==
  <<
     \* 'algebra'
     [keyword |-> <<"a", "l", "g", "e", "b", "r", "a">>,
      topicIds |-> <<"algebra-overview">>],
     \* 'linear equation'
     [keyword |-> <<"l", "i", "n", "e", "a", "r", " ", "e", "q", "u", "a", "t", "i", "o", "n">>,
      topicIds |-> <<"linear-equations">>],
     \* 'system of equations'
     [keyword |-> <<"s", "y", "s", "t", "e", "m", " ", "o", "f", " ", "e", "q", "u", "a", "t", "i", "o", "n", "s">>,
      topicIds |-> <<"systems-of-equations", "matrices">>],
     \* 'matrix'
     [keyword |-> <<"m", "a", "t", "r", "i", "x">>,
      topicIds |-> <<"matrices", "systems-of-equations">>],
     \* 'polynomial'
     [keyword |-> <<"p", "o", "l", "y", "n", "o", "m", "i", "a", "l">>,
      topicIds |-> <<"polynomials", "rational-functions">>],
     \* 'rational function'
     [keyword |-> <<"r", "a", "t", "i", "o", "n", "a", "l", " ", "f", "u", "n", "c", "t", "i", "o", "n">>,
      topicIds |-> <<"rational-functions">>],
     \* 'vector'
     [keyword |-> <<"v", "e", "c", "t", "o", "r">>,
      topicIds |-> <<"matrices">>],
     \* 'quadratic'
     [keyword |-> <<"q", "u", "a", "d", "r", "a", "t", "i", "c">>,
      topicIds |-> <<"quadratic-equations">>],
     \* 'quadratic formula'
     [keyword |-> <<"q", "u", "a", "d", "r", "a", "t", "i", "c", " ", "f", "o", "r", "m", "u", "l", "a">>,
      topicIds |-> <<"quadratic-formula", "quadratic-equations">>],
     \* 'quadratic equation'
     [keyword |-> <<"q", "u", "a", "d", "r", "a", "t", "i", "c", " ", "e", "q", "u", "a", "t", "i", "o", "n">>,
      topicIds |-> <<"quadratic-equations">>],
     \* 'parabola'
     [keyword |-> <<"p", "a", "r", "a", "b", "o", "l", "a">>,
      topicIds |-> <<"parabola-graphs", "quadratic-equations">>],
     \* 'vertex form'
     [keyword |-> <<"v", "e", "r", "t", "e", "x", " ", "f", "o", "r", "m">>,
      topicIds |-> <<"vertex-form", "parabola-graphs">>],
     \* 'vertex'
     [keyword |-> <<"v", "e", "r", "t", "e", "x">>,
      topicIds |-> <<"vertex-form", "parabola-graphs">>],
     \* 'completing square'
     [keyword |-> <<"c", "o", "m", "p", "l", "e", "t", "i", "n", "g", " ", "s", "q", "u", "a", "r", "e">>,
      topicIds |-> <<"completing-square", "vertex-form">>],
     \* 'completing the square'
     [keyword |-> <<"c", "o", "m", "p", "l", "e", "t", "i", "n", "g", " ", "t", "h", "e", " ", "s", "q", "u", "a", "r", "e">>,
      topicIds |-> <<"completing-square", "vertex-form">>],
     \* 'discriminant'
     [keyword |-> <<"d", "i", "s", "c", "r", "i", "m", "i", "n", "a", "n", "t">>,
      topicIds |-> <<"discriminant", "quadratic-formula">>],
     \* 'factorization'
     [keyword |-> <<"f", "a", "c", "t", "o", "r", "i", "z", "a", "t", "i", "o", "n">>,
      topicIds |-> <<"factorization", "quadratic-equations">>],
     \* 'factoring'
     [keyword |-> <<"f", "a", "c", "t", "o", "r", "i", "n", "g">>,
      topicIds |-> <<"factorization", "quadratic-equations">>],
     \* 'complex root'
     [keyword |-> <<"c", "o", "m", "p", "l", "e", "x", " ", "r", "o", "o", "t">>,
      topicIds |-> <<"complex-roots", "discriminant">>],
     \* 'imaginary root'
     [keyword |-> <<"i", "m", "a", "g", "i", "n", "a", "r", "y", " ", "r", "o", "o", "t">>,
      topicIds |-> <<"complex-roots", "discriminant">>],
     \* 'real world'
     [keyword |-> <<"r", "e", "a", "l", " ", "w", "o", "r", "l", "d">>,
      topicIds |-> <<"real-world-applications", "parabola-graphs">>],
     \* 'geometry'
     [keyword |-> <<"g", "e", "o", "m", "e", "t", "r", "y">>,
      topicIds |-> <<"geometry-basics">>],
     \* 'triangle'
     [keyword |-> <<"t", "r", "i", "a", "n", "g", "l", "e">>,
      topicIds |-> <<"triangles", "geometry-basics">>],
     \* 'pythagorean'
     [keyword |-> <<"p", "y", "t", "h", "a", "g", "o", "r", "e", "a", "n">>,
      topicIds |-> <<"triangles", "geometry-basics">>],
     \* 'pythagorean theorem'
     [keyword |-> <<"p", "y", "t", "h", "a", "g", "o", "r", "e", "a", "n", " ", "t", "h", "e", "o", "r", "e", "m">>,
      topicIds |-> <<"triangles", "geometry-basics">>],
     \* 'quadrilateral'
     [keyword |-> <<"q", "u", "a", "d", "r", "i", "l", "a", "t", "e", "r", "a", "l">>,
      topicIds |-> <<"quadrilaterals", "geometry-basics">>],
     \* 'circle'
     [keyword |-> <<"c", "i", "r", "c", "l", "e">>,
      topicIds |-> <<"circles", "area-volume">>],
     \* 'area'
     [keyword |-> <<"a", "r", "e", "a">>,
      topicIds |-> <<"area-volume", "geometry-basics">>],
     \* 'volume'
     [keyword |-> <<"v", "o", "l", "u", "m", "e">>,
      topicIds |-> <<"area-volume", "geometry-basics">>],
     \* 'coordinate geometry'
     [keyword |-> <<"c", "o", "o", "r", "d", "i", "n", "a", "t", "e", " ", "g", "e", "o", "m", "e", "t", "r", "y">>,
      topicIds |-> <<"coordinate-geometry", "area-volume">>],
     \* 'trigonometry'
     [keyword |-> <<"t", "r", "i", "g", "o", "n", "o", "m", "e", "t", "r", "y">>,
      topicIds |-> <<"trigonometric-functions", "triangles">>],
     \* 'trig'
     [keyword |-> <<"t", "r", "i", "g">>,
      topicIds |-> <<"trigonometric-functions", "triangles">>],
     \* 'sine'
     [keyword |-> <<"s", "i", "n", "e">>,
      topicIds |-> <<"trigonometric-functions", "triangles">>],
     \* 'cosine'
     [keyword |-> <<"c", "o", "s", "i", "n", "e">>,
      topicIds |-> <<"trigonometric-functions", "triangles">>],
     \* 'tangent'
     [keyword |-> <<"t", "a", "n", "g", "e", "n", "t">>,
      topicIds |-> <<"trigonometric-functions", "triangles">>],
     \* 'sin'
     [keyword |-> <<"s", "i", "n">>,
      topicIds |-> <<"trigonometric-functions", "triangles">>],
     \* 'cos'
     [keyword |-> <<"c", "o", "s">>,
      topicIds |-> <<"trigonometric-functions", "triangles">>],
     \* 'tan'
     [keyword |-> <<"t", "a", "n">>,
      topicIds |-> <<"trigonometric-functions", "triangles">>],
     \* 'trig identity'
     [keyword |-> <<"t", "r", "i", "g", " ", "i", "d", "e", "n", "t", "i", "t", "y">>,
      topicIds |-> <<"trig-identities", "trigonometric-functions">>],
     \* 'trig equation'
     [keyword |-> <<"t", "r", "i", "g", " ", "e", "q", "u", "a", "t", "i", "o", "n">>,
      topicIds |-> <<"trig-equations", "trig-identities">>],
     \* 'inverse trig'
     [keyword |-> <<"i", "n", "v", "e", "r", "s", "e", " ", "t", "r", "i", "g">>,
      topicIds |-> <<"inverse-trig", "trigonometric-functions">>],
     \* 'calculus'
     [keyword |-> <<"c", "a", "l", "c", "u", "l", "u", "s">>,
      topicIds |-> <<"limits", "functions-analysis">>],
     \* 'limit'
     [keyword |-> <<"l", "i", "m", "i", "t">>,
      topicIds |-> <<"limits", "functions-analysis">>],
     \* 'continuity'
     [keyword |-> <<"c", "o", "n", "t", "i", "n", "u", "i", "t", "y">>,
      topicIds |-> <<"limits", "functions-analysis">>],
     \* 'derivative'
     [keyword |-> <<"d", "e", "r", "i", "v", "a", "t", "i", "v", "e">>,
      topicIds |-> <<"derivatives", "limits">>],
     \* 'integral'
     [keyword |-> <<"i", "n", "t", "e", "g", "r", "a", "l">>,
      topicIds |-> <<"integrals", "derivatives">>],
     \* 'integration'
     [keyword |-> <<"i", "n", "t", "e", "g", "r", "a", "t", "i", "o", "n">>,
      topicIds |-> <<"integrals", "derivatives">>],
     \* 'differentiation'
     [keyword |-> <<"d", "i", "f", "f", "e", "r", "e", "n", "t", "i", "a", "t", "i", "o", "n">>,
      topicIds |-> <<"derivatives", "limits">>],
     \* 'fundamental theorem'
     [keyword |-> <<"f", "u", "n", "d", "a", "m", "e", "n", "t", "a", "l", " ", "t", "h", "e", "o", "r", "e", "m">>,
      topicIds |-> <<"integrals", "derivatives">>],
     \* 'optimization'
     [keyword |-> <<"o", "p", "t", "i", "m", "i", "z", "a", "t", "i", "o", "n">>,
      topicIds |-> <<"applications-derivatives">>],
     \* 'related rates'
     [keyword |-> <<"r", "e", "l", "a", "t", "e", "d", " ", "r", "a", "t", "e", "s">>,
      topicIds |-> <<"applications-derivatives">>],
     \* 'maxima'
     [keyword |-> <<"m", "a", "x", "i", "m", "a">>,
      topicIds |-> <<"applications-derivatives">>],
     \* 'minima'
     [keyword |-> <<"m", "i", "n", "i", "m", "a">>,
      topicIds |-> <<"applications-derivatives">>],
     \* 'area integration'
     [keyword |-> <<"a", "r", "e", "a", " ", "i", "n", "t", "e", "g", "r", "a", "t", "i", "o", "n">>,
      topicIds |-> <<"applications-integrals">>],
     \* 'volume integration'
     [keyword |-> <<"v", "o", "l", "u", "m", "e", " ", "i", "n", "t", "e", "g", "r", "a", "t", "i", "o", "n">>,
      topicIds |-> <<"applications-integrals">>],
     \* 'statistics'
     [keyword |-> <<"s", "t", "a", "t", "i", "s", "t", "i", "c", "s">>,
      topicIds |-> <<"basic-statistics">>],
     \* 'probability'
     [keyword |-> <<"p", "r", "o", "b", "a", "b", "i", "l", "i", "t", "y">>,
      topicIds |-> <<"probability", "basic-statistics">>],
     \* 'mean'
     [keyword |-> <<"m", "e", "a", "n">>,
      topicIds |-> <<"basic-statistics">>],
     \* 'median'
     [keyword |-> <<"m", "e", "d", "i", "a", "n">>,
      topicIds |-> <<"basic-statistics">>],
     \* 'mode'
     [keyword |-> <<"m", "o", "d", "e">>,
      topicIds |-> <<"basic-statistics">>],
     \* 'average'
     [keyword |-> <<"a", "v", "e", "r", "a", "g", "e">>,
      topicIds |-> <<"basic-statistics">>],
     \* 'standard deviation'
     [keyword |-> <<"s", "t", "a", "n", "d", "a", "r", "d", " ", "d", "e", "v", "i", "a", "t", "i", "o", "n">>,
      topicIds |-> <<"basic-statistics">>],
     \* 'data analysis'
     [keyword |-> <<"d", "a", "t", "a", " ", "a", "n", "a", "l", "y", "s", "i", "s">>,
      topicIds |-> <<"data-analysis", "basic-statistics">>],
     \* 'regression'
     [keyword |-> <<"r", "e", "g", "r", "e", "s", "s", "i", "o", "n">>,
      topicIds |-> <<"regression", "data-analysis">>],
     \* 'statistical inference'
     [keyword |-> <<"s", "t", "a", "t", "i", "s", "t", "i", "c", "a", "l", " ", "i", "n", "f", "e", "r", "e", "n", "c", "e">>,
      topicIds |-> <<"statistics-inference", "probability">>],
     \* 'hypothesis testing'
     [keyword |-> <<"h", "y", "p", "o", "t", "h", "e", "s", "i", "s", " ", "t", "e", "s", "t", "i", "n", "g">>,
      topicIds |-> <<"statistics-inference">>],
     \* 'confidence interval'
     [keyword |-> <<"c", "o", "n", "f", "i", "d", "e", "n", "c", "e", " ", "i", "n", "t", "e", "r", "v", "a", "l">>,
      topicIds |-> <<"statistics-inference">>]
  >>

\* String.prototype.toLowerCase, one character
LowerChar(c) ==
  CASE c = "A" -> "a" [] c = "B" -> "b" [] c = "C" -> "c" [] c = "D" -> "d"
    [] c = "E" -> "e" [] c = "F" -> "f" [] c = "G" -> "g" [] c = "H" -> "h"
    [] c = "I" -> "i" [] c = "J" -> "j" [] c = "K" -> "k" [] c = "L" -> "l"
    [] c = "M" -> "m" [] c = "N" -> "n" [] c = "O" -> "o" [] c = "P" -> "p"
    [] c = "Q" -> "q" [] c = "R" -> "r" [] c = "S" -> "s" [] c = "T" -> "t"
    [] c = "U" -> "u" [] c = "V" -> "v" [] c = "W" -> "w" [] c = "X" -> "x"
    [] c = "Y" -> "y" [] c = "Z" -> "z" [] OTHER -> c

toLowerCase(s) == [i \in DOMAIN s |-> LowerChar(s[i])]

\* the characters \s matches and trim() strips, as far as the queries use them
IsSpace(c) == c \in {" ", "\t", "\n"}

\* String.prototype.trim
trim(s) ==
  LET solid == {i \in DOMAIN s : ~IsSpace(s[i])}
  IN  IF solid = {} THEN <<>>
      ELSE SubSeq(s, CHOOSE i \in solid : \A j \in solid : i <= j,
                     CHOOSE i \in solid : \A j \in solid : i >= j)

\* s.includes(sub) for strings
StrIncludes(s, sub) ==
  \E i \in 0..(Len(s) - Len(sub)) : SubSeq(s, i + 1, i + Len(sub)) = sub

\* s.split(/\s+/): the pieces between the runs of whitespace
RECURSIVE SplitFrom(_, _, _)
SplitFrom(s, i, piece) ==
  IF i > Len(s) THEN <<piece>>
  ELSE IF IsSpace(s[i])
       THEN IF i > 1 /\ IsSpace(s[i - 1])
            THEN SplitFrom(s, i + 1, piece)
            ELSE <<piece>> \o SplitFrom(s, i + 1, <<>>)
       ELSE SplitFrom(s, i + 1, Append(piece, s[i]))

splitWhitespace(s) == SplitFrom(s, 1, <<>>)

\* keyword.split(' ')[0]
firstWord(keyword) ==
  LET blanks == {i \in DOMAIN keyword : keyword[i] = " "}
  IN  IF blanks = {} THEN keyword
      ELSE SubSeq(keyword, 1, (CHOOSE i \in blanks : \A j \in blanks : i <= j) - 1)

\* ids.forEach(id => set.add(id)) on a Set kept in insertion order
RECURSIVE AddAll(_, _)
AddAll(set, ids) ==
  IF ids = <<>> THEN set
  ELSE AddAll(IF Includes(set, Head(ids)) THEN set ELSE Append(set, Head(ids)),
              Tail(ids))

\* faulty variant: the pass stops at the first keyword it finds
RECURSIVE ExactPass_firstOnly(_, _, _)
ExactPass_firstOnly(queryWords, k, matched) ==
  IF k > Len(KEYWORD_TOPIC_MAP) THEN matched
  ELSE IF StrIncludes(queryWords, KEYWORD_TOPIC_MAP[k].keyword)
       THEN AddAll(matched, KEYWORD_TOPIC_MAP[k].topicIds)
       ELSE ExactPass_firstOnly(queryWords, k + 1, matched)

\* the exact-substring pass over KEYWORD_TOPIC_MAP entries k..end
RECURSIVE ExactPass(_, _, _)
ExactPass(queryWords, k, matched) ==
  IF k > Len(KEYWORD_TOPIC_MAP) THEN matched
  ELSE LET next == IF StrIncludes(queryWords, KEYWORD_TOPIC_MAP[k].keyword)
                   THEN AddAll(matched, KEYWORD_TOPIC_MAP[k].topicIds)
                   ELSE matched
       \* the test has `next` evaluated before the pass moves on
       IN  IF Len(next) >= 0 THEN ExactPass(queryWords, k + 1, next) ELSE next

\* the partial pass over KEYWORD_TOPIC_MAP entries k..end
RECURSIVE PartialPass(_, _, _)
PartialPass(partialMatches, k, matched) ==
  IF k > Len(KEYWORD_TOPIC_MAP) THEN matched
  ELSE LET keyword == KEYWORD_TOPIC_MAP[k].keyword
           hit == \E w \in DOMAIN partialMatches :
                    \/ StrIncludes(keyword, partialMatches[w])
                    \/ StrIncludes(partialMatches[w], firstWord(keyword))
           next == IF hit THEN AddAll(matched, KEYWORD_TOPIC_MAP[k].topicIds) ELSE matched
       \* the test has `next` evaluated before the pass moves on
       IN  IF Len(next) >= 0 THEN PartialPass(partialMatches, k + 1, next) ELSE next

\* faulty variant: the partial pass runs whatever the exact pass found
getTopicsFromQuery_bothPasses(query) ==
  LET queryWords == trim(toLowerCase(query))
      LongWord(word) == Len(word) > 3
  IN  PartialPass(SelectSeq(splitWhitespace(queryWords), LongWord), 1,
                  ExactPass(queryWords, 1, <<>>))

\* faulty variant: the query is not lower-cased
getTopicsFromQuery_caseSensitive(query) ==
  LET queryWords == trim(query)
      exact == ExactPass(queryWords, 1, <<>>)
      LongWord(word) == Len(word) > 3
  IN  IF exact = <<>>
      THEN PartialPass(SelectSeq(splitWhitespace(queryWords), LongWord), 1, <<>>)
      ELSE exact

\* getTopicsFromQuery(query)
getTopicsFromQuery(query) ==
  LET queryWords == trim(toLowerCase(query))
      exact == ExactPass(queryWords, 1, <<>>)
      LongWord(word) == Len(word) > 3
  IN  IF exact = <<>>
      THEN PartialPass(SelectSeq(splitWhitespace(queryWords), LongWord), 1, <<>>)
      ELSE exact

----------------------------------------------------------------------------
(* Bounds and inputs                                                        *)

\* recordQuizResult calls in one run of the service specification
MaxCalls == 3

\* topic ids handed to recordQuizResult: the root, a neighbour, an id of no topic
QuizTopicIds == {"quadratic-equations", "quadratic-formula", "no-such-topic"}

\* scores handed to recordQuizResult
Scores == {0, 75}

\* pending handleQuizComplete timeouts
MaxTimers == 1

\* the map nodes a user clicks: the root, a topic that lists the root, a topic the
\* root lists without being listed back, and a topic only discovery unlocks
ClickTopicIds ==
  {"quadratic-equations", "quadratic-formula", "algebra-overview", "linear-equations"}

\* correct answers before the last question, as the quiz is completed
QuizEarlier == {1}

\* useState<Topic[]>(QUADRATICS_CLUSTER): the flags of the static definitions
InitialTopics ==
  [i \in DOMAIN GALAXY_TOPICS |->
     [unlocked |-> GALAXY_TOPICS[i].unlocked, captured |-> GALAXY_TOPICS[i].captured]]

\* records the Index save effect leaves behind (capturedTopics and unlockedTopics
\* written over the default record), and no item at all
InitialItems ==
  {NoItem,
   Item(Merge(getDefaultProgress, [capturedTopics |-> <<>>,
                                   unlockedTopics |-> <<ROOT_TOPIC>>])),
   Item(Merge(getDefaultProgress, [capturedTopics |-> <<ROOT_TOPIC>>,
                                   unlockedTopics |-> <<ROOT_TOPIC, "triangles">>]))}

----------------------------------------------------------------------------
(* The Quiz component on its own                                            *)

\* questions.length of the quizzes handed to the component
MaxQuestions == 4

\* useState(0), useState(null), useState(false), useState(0) for n questions;
\* answered: whether each submitted answer was the correct one (history);
\* completed: the scores handed to onComplete
QuizMounted(n) ==
  [n |-> n, currentQuestionIndex |-> 0, selectedAnswer |-> "null",
   showFeedback |-> FALSE, score |-> 0, answered |-> <<>>, completed |-> <<>>]

\* no Quiz component is rendered
NoQuiz == QuizMounted(0)

\* getTopicsFromQuery has not been called
NoMatch == [query |-> <<>>, called |-> FALSE, result |-> <<>>]

\* no call of the AI service has been made
NoRequest ==
  [fn |-> "none", pc |-> "idle", posted |-> FALSE, response |-> <<>>, result |-> <<>>]

InitUnits ==
  /\ quiz = NoQuiz
  /\ callResult = "none"
  /\ match = NoMatch
  /\ ai = NoRequest
  /\ reported = <<>>

----------------------------------------------------------------------------
(* Initial state: Index before its first effects have run                   *)

InitApp ==
  /\ topics = InitialTopics
  /\ capturedTopics = <<>>
  /\ unlockedTopics = <<>>
  /\ nextCaptured = <<>>
  /\ nextUnlocked = <<>>
  /\ dirty = FALSE
  /\ effects = <<"load", "save", "recompute">>
  /\ currentTopic = <<>>
  /\ stage = "explanation"
  /\ timers = <<>>
  /\ isLoadingAI = FALSE
  /\ inflight = <<>>
  /\ aiResponse = <<>>
  /\ showAiModal = FALSE
  /\ mounted = TRUE

----------------------------------------------------------------------------
(* Quiz bank and quiz result                                                *)

\* getQuizQuestions(topicId).length: the quiz bank holds two topics
quizLength(topicId) ==
  CASE topicId = "quadratic-equations" -> 4
    [] topicId = "linear-equations" -> 3
    [] OTHER -> 0

\* Math.round(((score + (isCorrect ? 1 : 0)) / n) * 100) in handleNext
finalScore(score, isCorrect, n) ==
  ((score + (IF isCorrect THEN 1 ELSE 0)) * 200 + n) \div (2 * n)

----------------------------------------------------------------------------
(* Index: effects                                                           *)

\* React has committed the last render and run its effects
Idle == mounted /\ effects = <<>> /\ ~dirty

\* faulty variant: the saved unlockedTopics is not restored
LoadEffect_forgetsUnlocked ==
  /\ mounted
  /\ effects # <<>> /\ Head(effects) = "load"
  /\ effects' = Tail(effects)
  /\ IF stored.kind = "record"
     THEN /\ nextCaptured' = stored.progress.capturedTopics
          /\ nextUnlocked' = <<ROOT_TOPIC>>
     ELSE /\ nextUnlocked' = <<ROOT_TOPIC>>
          /\ UNCHANGED nextCaptured
  /\ dirty' = TRUE
  /\ UNCHANGED <<unitVars, reported, stored, recorded, topics, capturedTopics, unlockedTopics, currentTopic,
                 stage, timers, isLoadingAI, inflight, aiResponse, showAiModal, mounted>>

\* useEffect(() => {...}, []): load saved progress on mount
LoadEffect ==
  /\ mounted
  /\ effects # <<>> /\ Head(effects) = "load"
  /\ effects' = Tail(effects)
  /\ IF stored.kind = "record"
     THEN /\ nextCaptured' = stored.progress.capturedTopics
          /\ nextUnlocked' = stored.progress.unlockedTopics
     ELSE /\ nextUnlocked' = <<ROOT_TOPIC>>
          /\ UNCHANGED nextCaptured
  /\ dirty' = TRUE
  /\ UNCHANGED <<unitVars, reported, stored, recorded, topics, capturedTopics, unlockedTopics, currentTopic,
                 stage, timers, isLoadingAI, inflight, aiResponse, showAiModal, mounted>>

\* useEffect(() => updateProgress({capturedTopics, unlockedTopics}), [...])
SaveEffect ==
  /\ mounted
  /\ effects # <<>> /\ Head(effects) = "save"
  /\ effects' = Tail(effects)
  /\ stored' = updateProgress(stored, [capturedTopics |-> capturedTopics,
                                       unlockedTopics |-> unlockedTopics])
  /\ UNCHANGED <<unitVars, reported, recorded, topics, capturedTopics, unlockedTopics, nextCaptured,
                 nextUnlocked, dirty, currentTopic, stage, timers, isLoadingAI,
                 inflight, aiResponse, showAiModal, mounted>>

\* faulty variant: unlockedTopics is not consulted
recomputeUnlocked_capturedOnly(topicId, captured, unlocked) ==
  shouldUnlockTopic(topicId, captured)

\* shouldUnlockTopic(topic.id, capturedTopics) || unlockedTopics.includes(topic.id)
recomputeUnlocked(topicId, captured, unlocked) ==
  shouldUnlockTopic(topicId, captured) \/ Includes(unlocked, topicId)

\* faulty variant: the effect writes the topics it found unlocked back into
\* unlockedTopics
RecomputeEffect_writesBack ==
  /\ mounted
  /\ effects # <<>> /\ Head(effects) = "recompute"
  /\ effects' = Tail(effects)
  /\ topics' = [i \in DOMAIN topics |->
                  [unlocked |-> recomputeUnlocked(GALAXY_TOPICS[i].id, capturedTopics,
                                                  unlockedTopics),
                   captured |-> Includes(capturedTopics, GALAXY_TOPICS[i].id)]]
  /\ unlockedTopics' =
       AddAll(unlockedTopics,
              SelectSeq([i \in DOMAIN GALAXY_TOPICS |-> GALAXY_TOPICS[i].id],
                        LAMBDA id : recomputeUnlocked(id, capturedTopics, unlockedTopics)))
  /\ UNCHANGED <<unitVars, reported, stored, recorded, capturedTopics, nextCaptured,
                 nextUnlocked, dirty, currentTopic, stage, timers, isLoadingAI,
                 inflight, aiResponse, showAiModal, mounted>>

\* faulty variant: the captured flag of a node is the one it had
RecomputeEffect_keepsCaptured ==
  /\ mounted
  /\ effects # <<>> /\ Head(effects) = "recompute"
  /\ effects' = Tail(effects)
  /\ topics' = [i \in DOMAIN topics |->
                  [unlocked |-> recomputeUnlocked(GALAXY_TOPICS[i].id, capturedTopics,
                                                  unlockedTopics),
                   captured |-> topics[i].captured]]
  /\ UNCHANGED <<unitVars, reported, stored, recorded, capturedTopics, unlockedTopics, nextCaptured,
                 nextUnlocked, dirty, currentTopic, stage, timers, isLoadingAI,
                 inflight, aiResponse, showAiModal, mounted>>

\* useEffect(() => setTopics(prev => prev.map(...)), [capturedTopics, unlockedTopics])
RecomputeEffect ==
  /\ mounted
  /\ effects # <<>> /\ Head(effects) = "recompute"
  /\ effects' = Tail(effects)
  /\ topics' = [i \in DOMAIN topics |->
                  [unlocked |-> recomputeUnlocked(GALAXY_TOPICS[i].id, capturedTopics,
                                                  unlockedTopics),
                   captured |-> Includes(capturedTopics, GALAXY_TOPICS[i].id)]]
  /\ UNCHANGED <<unitVars, reported, stored, recorded, capturedTopics, unlockedTopics, nextCaptured,
                 nextUnlocked, dirty, currentTopic, stage, timers, isLoadingAI,
                 inflight, aiResponse, showAiModal, mounted>>

\* React renders again with the queued state; both effects depend on the two arrays
Render ==
  /\ mounted
  /\ effects = <<>> /\ dirty
  /\ capturedTopics' = nextCaptured
  /\ unlockedTopics' = nextUnlocked
  /\ dirty' = FALSE
  /\ effects' = <<"save", "recompute">>
  /\ UNCHANGED <<unitVars, reported, stored, recorded, topics, nextCaptured, nextUnlocked, currentTopic,
                 stage, timers, isLoadingAI, inflight, aiResponse, showAiModal, mounted>>

----------------------------------------------------------------------------
(* GalaxyMap and LearningSession                                            *)

\* faulty variant: every star of the map answers a click
isUnlocked_unguarded(i) == TRUE

\* GalaxyMap: topic.unlocked || capturedTopics.some(id =>
\*              topics.find(t => t.id === id)?.connectedTopics.includes(topic.id))
isUnlocked(i) ==
  \/ topics[i].unlocked
  \/ \E c \in DOMAIN capturedTopics :
       LET found == getTopicById(capturedTopics[c])
       IN  found # <<>> /\ Includes(found[1].connectedTopics, GALAXY_TOPICS[i].id)

\* no modal covers the map and the query form
NoOverlay == currentTopic = <<>> /\ ~showAiModal

\* onClick={() => isUnlocked && onTopicClick(topic)} -> setCurrentTopic(topic)
TopicClick(i) ==
  /\ Idle /\ NoOverlay
  /\ GALAXY_TOPICS[i].id \in ClickTopicIds
  /\ isUnlocked(i)
  /\ currentTopic' = <<GALAXY_TOPICS[i].id>>
  /\ stage' = "explanation"
  /\ UNCHANGED <<unitVars, reported, stored, recorded, topics, capturedTopics, unlockedTopics, nextCaptured,
                 nextUnlocked, dirty, effects, timers, isLoadingAI, inflight,
                 aiResponse, showAiModal, mounted>>

\* faulty variant: closing the session clears its pending timeout
CloseSession_clearsTimeout ==
  /\ Idle /\ currentTopic # <<>> /\ ~showAiModal
  /\ currentTopic' = <<>>
  /\ stage' = "explanation"
  /\ timers' = <<>>
  /\ UNCHANGED <<unitVars, reported, stored, recorded, topics, capturedTopics, unlockedTopics, nextCaptured,
                 nextUnlocked, dirty, effects, isLoadingAI, inflight,
                 aiResponse, showAiModal, mounted>>

\* onClose={() => setCurrentTopic(null)}: the session unmounts
CloseSession ==
  /\ Idle /\ currentTopic # <<>> /\ ~showAiModal
  /\ currentTopic' = <<>>
  /\ stage' = "explanation"
  /\ UNCHANGED <<unitVars, reported, stored, recorded, topics, capturedTopics, unlockedTopics, nextCaptured,
                 nextUnlocked, dirty, effects, timers, isLoadingAI, inflight,
                 aiResponse, showAiModal, mounted>>

\* ExplanationView onNext={() => setStage('visualization')}
ExplanationNext ==
  /\ Idle /\ currentTopic # <<>> /\ ~showAiModal
  /\ stage = "explanation"
  /\ stage' = "visualization"
  /\ UNCHANGED <<unitVars, reported, stored, recorded, topics, capturedTopics, unlockedTopics, nextCaptured,
                 nextUnlocked, dirty, effects, currentTopic, timers, isLoadingAI,
                 inflight, aiResponse, showAiModal, mounted>>

\* A render throws and nothing catches it: React unmounts the whole tree. The
\* state of every component is gone; timeouts and requests still pending
\* only set state of unmounted components, which does nothing.
Unmount ==
  /\ mounted' = FALSE
  /\ topics' = InitialTopics
  /\ capturedTopics' = <<>>
  /\ unlockedTopics' = <<>>
  /\ nextCaptured' = <<>>
  /\ nextUnlocked' = <<>>
  /\ dirty' = FALSE
  /\ effects' = <<>>
  /\ currentTopic' = <<>>
  /\ stage' = "explanation"
  /\ timers' = <<>>
  /\ isLoadingAI' = FALSE
  /\ inflight' = <<>>
  /\ aiResponse' = <<>>
  /\ showAiModal' = FALSE
  /\ UNCHANGED <<unitVars, reported, stored, recorded>>

\* VisualizationView onNext={() => setStage('quiz')}.  Quiz reads
\* questions[0].correctAnswer while rendering, which throws when the bank has no
\* question for the topic.
VisualizationNext ==
  /\ Idle /\ currentTopic # <<>> /\ ~showAiModal
  /\ stage = "visualization"
  /\ IF quizLength(currentTopic[1]) > 0
     THEN /\ stage' = "quiz"
          /\ UNCHANGED <<unitVars, reported, stored, recorded, topics, capturedTopics, unlockedTopics,
                         nextCaptured, nextUnlocked, dirty, effects, currentTopic, timers,
                         isLoadingAI, inflight, aiResponse, showAiModal, mounted>>
     ELSE Unmount

\* Quiz handleNext on the last question -> handleQuizComplete(score):
\* setStage('celebration'); setTimeout(() => onComplete(topic.id, score), 3000).
\* earlier: correct answers submitted before the last question.
\* limit: the pending timeouts the run allows.
handleQuizComplete(limit, earlier, isCorrect) ==
  /\ Idle /\ currentTopic # <<>> /\ ~showAiModal
  /\ stage = "quiz"
  /\ Len(timers) < limit
  /\ LET n == quizLength(currentTopic[1])
     IN  /\ earlier < n
         /\ timers' = Append(timers,
              [topicId |-> currentTopic[1],
               score   |-> finalScore(earlier + (IF isCorrect THEN 1 ELSE 0), isCorrect, n),
               seen    |-> capturedTopics])
  /\ stage' = "celebration"
  /\ UNCHANGED <<unitVars, reported, stored, recorded, topics, capturedTopics, unlockedTopics, nextCaptured,
                 nextUnlocked, dirty, effects, currentTopic, isLoadingAI, inflight,
                 aiResponse, showAiModal, mounted>>

QuizComplete(earlier, isCorrect) == handleQuizComplete(MaxTimers, earlier, isCorrect)

\* score >= 60
PASS_SCORE == 60

\* faulty variant: every finished quiz captures
passes_always(score) == TRUE

\* handleLearningComplete: score >= 60
passes(score) == score >= PASS_SCORE

\* faulty variant: the view asks for more than the handler
celebrationPassed_strict(score) == score > 80

\* CelebrationView: const passed = score >= 60
celebrationPassed(score) == score >= 60

\* the timeout fires: handleLearningComplete(topicId, score) of the render that
\* created the callback, whose capturedTopics is `seen`
LearningComplete ==
  /\ Idle
  /\ timers # <<>>
  /\ timers' = Tail(timers)
  /\ LET t == Head(timers)
     IN  IF passes(t.score) /\ ~Includes(t.seen, t.topicId)
         THEN /\ nextCaptured' = Append(nextCaptured, t.topicId)
              /\ dirty' = TRUE
         ELSE UNCHANGED <<nextCaptured, dirty>>
  /\ UNCHANGED <<unitVars, reported, stored, recorded, topics, capturedTopics, unlockedTopics, nextUnlocked,
                 effects, currentTopic, stage, isLoadingAI, inflight, aiResponse,
                 showAiModal, mounted>>

----------------------------------------------------------------------------
(* Index: keyword discovery                                                 *)

\* the queries a user submits
UserQueries ==
  {\* "  Linear Equation "
   <<" ", " ", "L", "i", "n", "e", "a", "r", " ", "E", "q", "u", "a", "t", "i", "o", "n", " ">>,
   \* "quadratic formula"
   <<"q", "u", "a", "d", "r", "a", "t", "i", "c", " ", "f", "o", "r", "m", "u", "l", "a">>,
   \* " "
   <<" ">>}

\* getTopicsFromQuery on the queries submitted, computed once
Matched == [q \in UserQueries |-> getTopicsFromQuery(trim(q))]

\* faulty variant: every matched id counts as newly unlockable
newlyUnlockable_all(topicIds) == topicIds

\* topicIds.filter(id => !unlockedTopics.includes(id) && !capturedTopics.includes(id))
newlyUnlockable(topicIds) ==
  LET New(id) == ~Includes(unlockedTopics, id) /\ ~Includes(capturedTopics, id)
  IN  SelectSeq(topicIds, New)

\* handleQuerySubmit up to `await generateChatResponse(query, true)`
QuerySubmit(userQuery) ==
  /\ Idle /\ NoOverlay
  /\ ~isLoadingAI
  /\ trim(userQuery) # <<>>
  /\ LET unlockable == newlyUnlockable(Matched[userQuery])
     IN  /\ IF unlockable # <<>>
            THEN /\ nextUnlocked' = AddAll(nextUnlocked, unlockable)
                 /\ dirty' = TRUE
            ELSE UNCHANGED <<nextUnlocked, dirty>>
         /\ inflight' = <<[unlockedTopics |-> unlockable]>>
         /\ reported' = reported \o unlockable
  /\ isLoadingAI' = TRUE
  /\ UNCHANGED <<unitVars, stored, recorded, topics, capturedTopics, unlockedTopics, nextCaptured,
                 effects, currentTopic, stage, timers, aiResponse, showAiModal, mounted>>

\* handleQuerySubmit after the await: setAiResponse, setShowAiModal(true),
\* finally setIsLoadingAI(false)
QueryResponse ==
  /\ Idle
  /\ inflight # <<>>
  /\ aiResponse' = inflight
  /\ showAiModal' = TRUE
  /\ isLoadingAI' = FALSE
  /\ inflight' = <<>>
  /\ UNCHANGED <<unitVars, reported, stored, recorded, topics, capturedTopics, unlockedTopics, nextCaptured,
                 nextUnlocked, dirty, effects, currentTopic, stage, timers, mounted>>

\* the modal's close buttons: setShowAiModal(false).  aiResponse is read only
\* while the modal shows and is set anew whenever the modal opens, so the closed
\* modal's aiResponse is dropped here.
CloseAiModal ==
  /\ Idle /\ showAiModal
  /\ showAiModal' = FALSE
  /\ aiResponse' = <<>>
  /\ UNCHANGED <<unitVars, reported, stored, recorded, topics, capturedTopics, unlockedTopics, nextCaptured,
                 nextUnlocked, dirty, effects, currentTopic, stage, timers, isLoadingAI,
                 inflight, mounted>>

\* aiResponse.unlockedTopics, <<>> while aiResponse is null
DialogTopics == IF aiResponse = <<>> THEN <<>> ELSE aiResponse[1].unlockedTopics

\* a button of the "Topics Unlocked!" card: setCurrentTopic(topic);
\* setShowAiModal(false).  An open LearningSession keeps its stage; its Quiz throws
\* when the new topic has no question.
DialogOpenTopic(k) ==
  /\ Idle /\ showAiModal
  /\ LET topicId == DialogTopics[k]
     IN  /\ getTopicById(topicId) # <<>>
         /\ IF currentTopic # <<>> /\ stage = "quiz" /\ quizLength(topicId) = 0
            THEN Unmount
            ELSE /\ currentTopic' = <<topicId>>
                 /\ stage' = IF currentTopic = <<>> THEN "explanation" ELSE stage
                 /\ showAiModal' = FALSE
                 /\ aiResponse' = <<>>
                 /\ UNCHANGED <<unitVars, reported, stored, recorded, topics, capturedTopics, unlockedTopics,
                                nextCaptured, nextUnlocked, dirty, effects, timers,
                                isLoadingAI, inflight, mounted>>

\* the page is loaded again: every component starts over, pending timeouts and
\* requests are gone, the stored item stays
Reload ==
  /\ ~mounted \/ Idle
  /\ topics' = InitialTopics
  /\ capturedTopics' = <<>>
  /\ unlockedTopics' = <<>>
  /\ nextCaptured' = <<>>
  /\ nextUnlocked' = <<>>
  /\ dirty' = FALSE
  /\ effects' = <<"load", "save", "recompute">>
  /\ currentTopic' = <<>>
  /\ stage' = "explanation"
  /\ timers' = <<>>
  /\ isLoadingAI' = FALSE
  /\ inflight' = <<>>
  /\ aiResponse' = <<>>
  /\ showAiModal' = FALSE
  /\ mounted' = TRUE
  /\ UNCHANGED <<unitVars, reported, stored, recorded>>

----------------------------------------------------------------------------
(* The application                                                          *)

Init ==
  /\ stored = NoItem
  /\ recorded = <<>>
  /\ InitApp
  /\ InitUnits

Next ==
  \/ LoadEffect
  \/ SaveEffect
  \/ RecomputeEffect
  \/ Render
  \/ \E i \in DOMAIN topics : TopicClick(i)
  \/ CloseSession
  \/ ExplanationNext
  \/ VisualizationNext
  \/ \E earlier \in QuizEarlier, isCorrect \in BOOLEAN : QuizComplete(earlier, isCorrect)
  \/ LearningComplete
  \/ \E userQuery \in UserQueries : QuerySubmit(userQuery)
  \/ QueryResponse
  \/ CloseAiModal
  \/ \E k \in DOMAIN DialogTopics : DialogOpenTopic(k)
  \/ Reload

Spec == Init /\ [][Next]_vars

----------------------------------------------------------------------------
(* The application with quizzes finished in quick succession: nothing clears   *)
(* the timeout of handleQuizComplete when the session closes, and a closed    *)
(* session can be opened and finished again before the timeout fires          *)

\* pending handleQuizComplete timeouts in these runs
MaxPending == 2

QuizCompletePending(earlier, isCorrect) == handleQuizComplete(MaxPending, earlier, isCorrect)

NextDelayed ==
  \/ LoadEffect
  \/ SaveEffect
  \/ RecomputeEffect
  \/ Render
  \/ \E i \in DOMAIN topics : TopicClick(i)
  \/ CloseSession
  \/ ExplanationNext
  \/ VisualizationNext
  \/ \E earlier \in QuizEarlier, isCorrect \in BOOLEAN : QuizCompletePending(earlier, isCorrect)
  \/ LearningComplete

SpecDelayed == Init /\ [][NextDelayed]_vars

----------------------------------------------------------------------------
(* The progress service called directly                                     *)

InitService ==
  /\ stored \in InitialItems
  /\ recorded = <<>>
  /\ InitApp
  /\ InitUnits

RecordQuizResult(topicId, score, passed) ==
  /\ Len(recorded) < MaxCalls
  /\ stored' = recordQuizResult(stored, topicId, score, passed)
  /\ recorded' = Append(recorded, [topicId |-> topicId, score |-> score, passed |-> passed])
  /\ UNCHANGED <<appVars, reported, unitVars>>

\* clearProgress(): removeItem
ClearProgress ==
  /\ stored.kind = "record"
  /\ stored' = NoItem
  /\ recorded' = <<>>
  /\ UNCHANGED <<appVars, reported, unitVars>>

NextService ==
  \/ \E topicId \in QuizTopicIds, score \in Scores, passed \in BOOLEAN :
       RecordQuizResult(topicId, score, passed)
  \/ ClearProgress

SpecService == InitService /\ [][NextService]_vars

----------------------------------------------------------------------------
(* Properties of the progress service                                       *)

\* the record a load of the stored item yields
Persisted == loadOrDefault(stored)

\* the calls recorded so far for topic t
CallsFor(t) == {i \in DOMAIN recorded : recorded[i].topicId = t}

\* the greatest score recorded so far for topic t, 0 when there is none
BestRecorded(t) ==
  IF CallsFor(t) = {} THEN 0
  ELSE LET i == CHOOSE i \in CallsFor(t) :
                  \A j \in CallsFor(t) : recorded[i].score >= recorded[j].score
       IN  recorded[i].score

\* C1: monotonic capture. Every recordQuizResult call, whatever its topic, score
\* and passed flag, keeps every id that was in the persisted capturedTopics.
C1_MonotonicCapture ==
  [][\A t \in QuizTopicIds, s \in Scores, p \in BOOLEAN :
       RecordQuizResult(t, s, p) =>
         Range(Persisted.capturedTopics) \subseteq Range(Persisted.capturedTopics')]_vars

\* a captured topic survived a later failed call for it with a lower score
C1_Witness ==
  \E i, j \in DOMAIN recorded :
    /\ i < j
    /\ recorded[i].topicId = recorded[j].topicId
    /\ recorded[i].passed /\ ~recorded[j].passed
    /\ recorded[j].score < recorded[i].score
    /\ Includes(Persisted.capturedTopics, recorded[i].topicId)

\* C3: attempt counting. Starting with quizAttempts[T] absent, quizAttempts[T] is
\* the number of recordQuizResult calls made for T, calls for other topics in
\* between or not, and a topic never called for has no entry.
C3_AttemptCounting ==
  /\ \A t \in QuizTopicIds :
       Get(Persisted.quizAttempts, t) = Cardinality(CallsFor(t))
  /\ DOMAIN Persisted.quizAttempts = {recorded[i].topicId : i \in DOMAIN recorded}

\* two calls for one topic with a call for another topic between them
C3_Witness ==
  \E i, j, k \in DOMAIN recorded :
    /\ i < j /\ j < k
    /\ recorded[i].topicId = recorded[k].topicId
    /\ recorded[j].topicId # recorded[i].topicId
    /\ Persisted.quizAttempts[recorded[i].topicId] = 2
    /\ Persisted.quizAttempts[recorded[j].topicId] = 1

\* C4: score monotonicity. quizScores[T] is the maximum of the scores recorded
\* for T, and no recordQuizResult call lowers the quizScores of any topic.
C4_ScoreMonotonic ==
  /\ [](\A t \in QuizTopicIds : Get(Persisted.quizScores, t) = BestRecorded(t))
  /\ [][\A t \in QuizTopicIds, s \in Scores, p \in BOOLEAN :
          RecordQuizResult(t, s, p) =>
            \A u \in QuizTopicIds :
              Get(Persisted.quizScores', u) >= Get(Persisted.quizScores, u)]_vars

\* a lower score was recorded after a higher one and the higher one is kept
C4_Witness ==
  \E i, j \in DOMAIN recorded :
    /\ i < j
    /\ recorded[i].topicId = recorded[j].topicId
    /\ recorded[j].score < recorded[i].score
    /\ Persisted.quizScores[recorded[i].topicId] = recorded[i].score

\* C5: after recordQuizResult, completionRate = |capturedTopics| / (number of
\* topics in the store) * 100, and it lies within 0..100.
C5_CompletionRate ==
  recorded # <<>> =>
    /\ Persisted.completionRate.num * Cardinality(TopicIds)
         = Len(Persisted.capturedTopics) * 100 * Persisted.completionRate.den
    /\ 0 <= Persisted.completionRate.num
    /\ Persisted.completionRate.num <= 100 * Persisted.completionRate.den

\* C9: a failed attempt leaves captures alone. recordQuizResult(T, score, false)
\* changes neither capturedTopics nor unlockedTopics nor the attempts and scores
\* of any other topic; quizAttempts[T] grows by one and quizScores[T] keeps the
\* prior best when score is lower.
C9_FailedAttemptFrame ==
  [][\A t \in QuizTopicIds, s \in Scores :
       RecordQuizResult(t, s, FALSE) =>
         LET before == Persisted
             after  == Persisted'
         IN  /\ after.capturedTopics = before.capturedTopics
             /\ after.unlockedTopics = before.unlockedTopics
             /\ DOMAIN after.quizAttempts = DOMAIN before.quizAttempts \cup {t}
             /\ DOMAIN after.quizScores = DOMAIN before.quizScores \cup {t}
             /\ \A u \in DOMAIN before.quizAttempts \ {t} :
                  after.quizAttempts[u] = before.quizAttempts[u]
             /\ \A u \in DOMAIN before.quizScores \ {t} :
                  after.quizScores[u] = before.quizScores[u]
             /\ after.quizAttempts[t] = Get(before.quizAttempts, t) + 1
             /\ s < Get(before.quizScores, t) =>
                  after.quizScores[t] = before.quizScores[t]]_vars

\* the last call failed with a score below the best, for a topic that is not
\* captured, while another topic is captured and has its own attempts
C9_Witness ==
  /\ Len(recorded) >= 2
  /\ LET last == recorded[Len(recorded)]
     IN  /\ ~last.passed
         /\ last.score < Persisted.quizScores[last.topicId]
         /\ ~Includes(Persisted.capturedTopics, last.topicId)
         /\ Persisted.capturedTopics # <<>>
         /\ \E u \in DOMAIN Persisted.quizAttempts : u # last.topicId

\* C10: set semantics of capture. Starting without a repeated id, the persisted
\* capturedTopics never holds an id twice.
C10_NoDuplicateCapture == NoDuplicates(Persisted.capturedTopics)

\* a topic passed twice is held once
C10_Witness ==
  \E i, j \in DOMAIN recorded :
    /\ i < j
    /\ recorded[i].topicId = recorded[j].topicId
    /\ recorded[i].passed /\ recorded[j].passed
    /\ Cardinality({k \in DOMAIN Persisted.capturedTopics :
                      Persisted.capturedTopics[k] = recorded[i].topicId}) = 1

----------------------------------------------------------------------------
(* Properties of the application                                            *)

\* the place of a topic in GALAXY_TOPICS and in `topics`
TopicIndex(id) == CHOOSE i \in DOMAIN GALAXY_TOPICS : GALAXY_TOPICS[i].id = id

\* explicitly unlocked, or one of the topic's own connectedTopics is captured
UnlockRule(i, captured, unlocked) ==
  \/ GALAXY_TOPICS[i].unlocked
  \/ GALAXY_TOPICS[i].id \in Range(unlocked)
  \/ Range(GALAXY_TOPICS[i].connectedTopics) \cap Range(captured) # {}

\* C2: unlock rule. Once the recomputation effect has run, a topic is reported
\* unlocked exactly when it is explicitly unlocked (root flag or unlockedTopics)
\* or one of its own connectedTopics is captured. On the default record
\* 'quadratic-formula' is locked; on the record recordQuizResult(
\* 'quadratic-equations', 75, true) leaves it is unlocked without being in
\* unlockedTopics.
C2_UnlockRule ==
  /\ Idle => \A i \in DOMAIN GALAXY_TOPICS :
               topics[i].unlocked <=> UnlockRule(i, capturedTopics, unlockedTopics)
  /\ LET P  == getDefaultProgress
         P1 == recordQuizResult(NoItem, "quadratic-equations", 75, TRUE).progress
     IN  /\ ~recomputeUnlocked("quadratic-formula", P.capturedTopics, P.unlockedTopics)
         /\ recomputeUnlocked("quadratic-formula", P1.capturedTopics, P1.unlockedTopics)
         /\ ~Includes(P1.unlockedTopics, "quadratic-formula")

\* the root is captured, 'quadratic-formula' was never put in unlockedTopics and
\* is reported unlocked, and a discovered topic is reported unlocked as well
C2_Witness ==
  /\ Idle
  /\ capturedTopics = <<"quadratic-equations">>
  /\ ~Includes(unlockedTopics, "quadratic-formula")
  /\ topics[TopicIndex("quadratic-formula")].unlocked
  /\ Includes(unlockedTopics, "linear-equations")
  /\ topics[TopicIndex("linear-equations")].unlocked
  /\ ~topics[TopicIndex("algebra-overview")].unlocked

\* a/b = c/d for fractions with positive denominators
SameRate(rate, num, den) == rate.num * den = num * rate.den

\* C6: in every persisted record completionRate is the percentage its own
\* capturedTopics makes, of the 40 topics recordQuizResult divides by or of the
\* topics the store defines.
C6_RateConsistent ==
  stored.kind = "record" =>
    \/ SameRate(stored.progress.completionRate,
                Len(stored.progress.capturedTopics) * 100, totalTopics)
    \/ SameRate(stored.progress.completionRate,
                Len(stored.progress.capturedTopics) * 100, Cardinality(TopicIds))

\* C7: every captured topic id is the root or a member of unlockedTopics, in the
\* committed state, in the queued state and in the persisted record.
CapturedWithinUnlocked(captured, unlocked) ==
  \A k \in DOMAIN captured : captured[k] = ROOT_TOPIC \/ Includes(unlocked, captured[k])

C7_CapturedSubsetUnlocked ==
  /\ CapturedWithinUnlocked(capturedTopics, unlockedTopics)
  /\ CapturedWithinUnlocked(nextCaptured, nextUnlocked)
  /\ stored.kind = "record" =>
       CapturedWithinUnlocked(stored.progress.capturedTopics,
                              stored.progress.unlockedTopics)

\* a topic other than the root is captured, in memory and in the record
C7_Witness ==
  /\ Idle
  /\ Includes(capturedTopics, "linear-equations")
  /\ Includes(capturedTopics, "quadratic-equations")
  /\ stored.kind = "record"
  /\ stored.progress.capturedTopics = capturedTopics

\* C8: root default. With the default progress (nothing captured, the root alone
\* in unlockedTopics) and the recomputation done, the root is the one topic
\* reported unlocked and no topic is reported captured.
C8_RootDefault ==
  (Idle /\ capturedTopics = <<>> /\ unlockedTopics = <<ROOT_TOPIC>>) =>
    /\ \A i \in DOMAIN GALAXY_TOPICS :
         /\ topics[i].unlocked <=> GALAXY_TOPICS[i].id = ROOT_TOPIC
         /\ ~topics[i].captured
    /\ Cardinality({i \in DOMAIN GALAXY_TOPICS : topics[i].unlocked}) = 1

\* the first run: nothing was persisted before the load effect, and the effects
\* have settled
C8_Witness ==
  /\ Idle
  /\ capturedTopics = <<>> /\ unlockedTopics = <<ROOT_TOPIC>>
  /\ stored = Item(getDefaultProgress)
  /\ topics[TopicIndex(ROOT_TOPIC)].unlocked

----------------------------------------------------------------------------
(* The Quiz component on its own: handlers                                  *)

\* selectedAnswer === currentQuestion.correctAnswer
isCorrect == quiz.selectedAnswer = "right"

\* currentQuestionIndex === questions.length - 1
isLastQuestion == quiz.currentQuestionIndex = quiz.n - 1

\* the component is rendered and has not handed its result to the parent, which
\* replaces it with the celebration view
QuizActive == quiz.n > 0 /\ quiz.completed = <<>>

\* handleAnswerSelect(index): index is the correct option or another one
handleAnswerSelect(answer) ==
  /\ QuizActive
  /\ ~quiz.showFeedback
  /\ quiz' = [quiz EXCEPT !.selectedAnswer = answer]
  /\ UNCHANGED <<stored, recorded, appVars, reported, callResult, match, ai>>

\* handleSubmit
handleSubmit ==
  /\ QuizActive
  /\ ~quiz.showFeedback
  /\ quiz.selectedAnswer # "null"
  /\ quiz' = [quiz EXCEPT !.showFeedback = TRUE,
                          !.score = IF isCorrect THEN @ + 1 ELSE @,
                          !.answered = Append(@, isCorrect)]
  /\ UNCHANGED <<stored, recorded, appVars, reported, callResult, match, ai>>

\* handleNext
handleNext ==
  /\ QuizActive
  /\ quiz.showFeedback
  /\ IF isLastQuestion
     THEN quiz' = [quiz EXCEPT !.completed =
                     Append(@, finalScore(quiz.score, isCorrect, quiz.n))]
     ELSE quiz' = [quiz EXCEPT !.currentQuestionIndex = @ + 1,
                               !.selectedAnswer = "null",
                               !.showFeedback = FALSE]
  /\ UNCHANGED <<stored, recorded, appVars, reported, callResult, match, ai>>

InitQuiz ==
  /\ stored = NoItem
  /\ recorded = <<>>
  /\ InitApp
  /\ quiz \in {QuizMounted(n) : n \in 1..MaxQuestions}
  /\ callResult = "none"
  /\ match = NoMatch
  /\ ai = NoRequest
  /\ reported = <<>>

NextQuiz ==
  \/ \E answer \in {"right", "wrong"} : handleAnswerSelect(answer)
  \/ handleSubmit
  \/ handleNext

SpecQuiz == InitQuiz /\ [][NextQuiz]_vars

----------------------------------------------------------------------------
(* The progress service and the mount of Index on items that are not        *)
(* progress records                                                         *)

\* getItem returned text that JSON.parse rejects: loadProgress catches and
\* returns null
UnparseableItem == [kind |-> "text"]

\* text that parses to a falsy value (null, 0, "", false): `||` and `if` take
\* the default branch
FalsyItem == [kind |-> "falsy"]

\* text that parses to a truthy value without the fields of a progress record:
\* {} (a number or a string reads like {}: every property is undefined), an
\* object with the arrays only, an object with the maps only
CorruptItems ==
  {Item([k \in {} |-> 0]),
   Item([capturedTopics |-> <<>>, unlockedTopics |-> <<ROOT_TOPIC>>]),
   Item([quizAttempts |-> EmptyMap, quizScores |-> EmptyMap,
         completionRate |-> Rate(0, 1)])}

\* the items the operations are run on
LoadItems ==
  {NoItem, UnparseableItem, FalsyItem, Item(getDefaultProgress)} \cup CorruptItems

\* the fields of `item`'s parsed value, none when loadProgress returns null
FieldsOf(item) == IF item.kind = "record" THEN DOMAIN item.progress ELSE {}

\* recordQuizResult reads progress.quizAttempts[topicId], progress.quizScores[
\* topicId] and progress.capturedTopics.includes / .length: a TypeError when one
\* of them is undefined
recordQuizResultThrows(item) ==
  /\ item.kind = "record"
  /\ ~({"quizAttempts", "quizScores", "capturedTopics"} \subseteq FieldsOf(item))

\* Index after the load effect: setCapturedTopics(undefined) makes the next
\* render throw at capturedTopics.length, setUnlockedTopics(undefined) makes the
\* recomputation throw at unlockedTopics.includes
mountThrows(item) ==
  /\ item.kind = "record"
  /\ ~({"capturedTopics", "unlockedTopics"} \subseteq FieldsOf(item))

\* the save effect of the first render, which holds the initial state [] and []
mountSave(item) ==
  updateProgress(item, [capturedTopics |-> <<>>, unlockedTopics |-> <<>>])

\* the save effect of the render after the load effect
loadedSave(item) ==
  updateProgress(mountSave(item),
    IF item.kind = "record"
    THEN [capturedTopics |-> item.progress.capturedTopics,
          unlockedTopics |-> item.progress.unlockedTopics]
    ELSE [capturedTopics |-> <<>>, unlockedTopics |-> <<ROOT_TOPIC>>])

\* a record with every field of PersistedProgress (lastActivity aside)
StructurallyValid(progress) == DOMAIN progress = DOMAIN getDefaultProgress

\* recordQuizResult('quadratic-equations', 75, passed)
CallRecordQuizResult(passed) ==
  /\ Len(recorded) < MaxCalls
  /\ recorded' = Append(recorded, [topicId |-> ROOT_TOPIC, score |-> 75,
                                   passed |-> passed])
  /\ IF recordQuizResultThrows(stored)
     THEN callResult' = "threw" /\ UNCHANGED stored
     ELSE /\ callResult' = "returned"
          /\ stored' = recordQuizResult(stored, ROOT_TOPIC, 75, passed)
  /\ UNCHANGED <<appVars, reported, quiz, match, ai>>

\* updateProgress({unlockedTopics: ['quadratic-equations', 'triangles']})
CallUpdateProgress ==
  /\ stored' = updateProgress(stored, [unlockedTopics |-> <<ROOT_TOPIC, "triangles">>])
  /\ callResult' = "returned"
  /\ UNCHANGED <<recorded, appVars, reported, quiz, match, ai>>

\* the page is opened: mount, load effect, save effect, render of the loaded state
StartApp ==
  /\ IF mountThrows(stored)
     THEN callResult' = "threw" /\ stored' = mountSave(stored)
     ELSE callResult' = "returned" /\ stored' = loadedSave(stored)
  /\ UNCHANGED <<recorded, appVars, reported, quiz, match, ai>>

InitLoad ==
  /\ stored \in LoadItems
  /\ recorded = <<>>
  /\ InitApp
  /\ quiz = NoQuiz
  /\ callResult = "none"
  /\ match = NoMatch
  /\ ai = NoRequest
  /\ reported = <<>>

NextLoad ==
  \/ \E passed \in BOOLEAN : CallRecordQuizResult(passed)
  \/ CallUpdateProgress
  \/ StartApp

SpecLoad == InitLoad /\ [][NextLoad]_vars

----------------------------------------------------------------------------
(* getTopicsFromQuery on its own                                            *)

\* phrases a query is made of
MatcherPhrases ==
  {\* 'quadratic'
   <<"q", "u", "a", "d", "r", "a", "t", "i", "c">>,
   \* 'Formula'
   <<"F", "o", "r", "m", "u", "l", "a">>,
   \* 'QUADRATIC'
   <<"Q", "U", "A", "D", "R", "A", "T", "I", "C">>,
   \* 'Pythagorean theorem'
   <<"P", "y", "t", "h", "a", "g", "o", "r", "e", "a", "n", " ", "t", "h", "e", "o", "r", "e", "m">>,
   \* 'What is the'
   <<"W", "h", "a", "t", " ", "i", "s", " ", "t", "h", "e">>,
   \* 'equations'
   <<"e", "q", "u", "a", "t", "i", "o", "n", "s">>,
   \* 'hello'
   <<"h", "e", "l", "l", "o">>}

\* phrases in one query
MaxPhrases == 2

\* whitespace around a query
MatcherPads == {<<>>, <<" ", " ">>}

\* the phrases joined with single spaces
RECURSIVE JoinPhrases(_)
JoinPhrases(phrases) ==
  IF Len(phrases) = 1 THEN phrases[1]
  ELSE phrases[1] \o <<" ">> \o JoinPhrases(Tail(phrases))

\* the query strings handed to getTopicsFromQuery
MatcherQueries ==
  {pad \o JoinPhrases(phrases) \o pad :
     pad \in MatcherPads,
     phrases \in UNION {[1..n -> MatcherPhrases] : n \in 1..MaxPhrases}}

\* result = getTopicsFromQuery(query)
CallGetTopicsFromQuery ==
  /\ ~match.called
  /\ match' = [match EXCEPT !.called = TRUE, !.result = getTopicsFromQuery(match.query)]
  /\ UNCHANGED <<stored, recorded, appVars, reported, quiz, callResult, ai>>

InitMatcher ==
  /\ stored = NoItem
  /\ recorded = <<>>
  /\ InitApp
  /\ quiz = NoQuiz
  /\ callResult = "none"
  /\ ai = NoRequest
  /\ reported = <<>>
  /\ match \in {[query |-> q, called |-> FALSE, result |-> <<>>] : q \in MatcherQueries}

NextMatcher == CallGetTopicsFromQuery

SpecMatcher == InitMatcher /\ [][NextMatcher]_vars

----------------------------------------------------------------------------
(* The AI service on its own.  A response text is the sequence of the      *)
(* sections response.split(/\n{2,}/) yields; a section is the header its     *)
(* trimmed text starts with and the pieces, trimmed, that split('\u2022') makes  *)
(* of the rest: "" is a blank piece, "a" and "b" are pieces with text.      *)
(* The empty sequence is the empty string or null.                          *)

\* sections in one response text
MaxSections == 3

SectionHeaders == {"EXPLANATION:", "KEY POINTS:", "EXAMPLES:", "none"}

\* nothing after the header, plain text, a bullet list of two points
SectionBodies == {<<"">>, <<"a">>, <<"", "a", "b">>}

Sections == [header : SectionHeaders, body : SectionBodies]

\* data.response: a non-empty string
ResponseTexts == UNION {[1..n -> Sections] : n \in 1..MaxSections}

\* text.split('\u2022').map(p => p.trim()).filter(p => p.length > 0)
bulletPoints(body) == SelectSeq(body, LAMBDA piece : piece # "")

\* getSimulatedExplanation(topicName): an entry of the bank or the default
\* entry; each has an explanation, key points and examples
getSimulatedExplanation ==
  [source |-> "simulated", explanation |-> <<<<"a">>>>,
   keyPoints |-> <<"a", "a", "a">>, examples |-> <<"a", "a">>]

\* simulateChatResponse(userQuery, isDiscovery): one of its fixed sentences
simulateChatResponse == [source |-> "simulated", text |-> <<[header |-> "none", body |-> <<"a">>]>>]

\* the body of the for loop of parseAIFStructuredResponse.  explanation is the
\* sequence of the bodies joined into it; the string is empty when the sequence
\* is, since every later body is joined with '\n\n' in front
parseSection(acc, section) ==
  CASE section.header = "EXPLANATION:" ->
         [acc EXCEPT !.currentSection = "explanation",
                     !.explanation = IF section.body = <<"">> THEN <<>>
                                     ELSE <<section.body>>]
    [] section.header = "KEY POINTS:" ->
         [acc EXCEPT !.currentSection = "keypoints",
                     !.keyPoints = bulletPoints(section.body)]
    [] section.header = "EXAMPLES:" ->
         [acc EXCEPT !.currentSection = "examples",
                     !.examples = bulletPoints(section.body)]
    [] OTHER ->
         IF acc.currentSection = "explanation"
         THEN [acc EXCEPT !.explanation = Append(@, section.body)]
         ELSE IF acc.currentSection = "keypoints" /\ acc.keyPoints = <<>>
         THEN [acc EXCEPT !.keyPoints = bulletPoints(section.body)]
         ELSE IF acc.currentSection = "examples" /\ acc.examples = <<>>
         THEN [acc EXCEPT !.examples = bulletPoints(section.body)]
         ELSE acc

RECURSIVE parseSections(_, _, _)
parseSections(sections, k, acc) ==
  IF k > Len(sections) THEN acc
  ELSE parseSections(sections, k + 1, parseSection(acc, sections[k]))

\* faulty variant: what was parsed is returned without the emptiness test
parseAIFStructuredResponse_noFallback(response) ==
  LET acc == parseSections(response, 1,
               [currentSection |-> "", explanation |-> <<>>,
                keyPoints |-> <<>>, examples |-> <<>>])
  IN  [source |-> "llm", explanation |-> acc.explanation,
       keyPoints |-> acc.keyPoints, examples |-> acc.examples]

\* parseAIFStructuredResponse(response, topicName)
parseAIFStructuredResponse(response) ==
  LET acc == parseSections(response, 1,
               [currentSection |-> "", explanation |-> <<>>,
                keyPoints |-> <<>>, examples |-> <<>>])
  IN  IF acc.explanation = <<>> \/ acc.keyPoints = <<>> \/ acc.examples = <<>>
      THEN getSimulatedExplanation
      ELSE [source |-> "llm", explanation |-> acc.explanation,
            keyPoints |-> acc.keyPoints, examples |-> acc.examples]

\* generateChatResponse after callLocalLLM: the text, or the simulated answer
\* when it is null or empty
chatResult(ollamaResponse) ==
  IF ollamaResponse # <<>>
  THEN [source |-> "llm", text |-> ollamaResponse]
  ELSE simulateChatResponse

\* generateExplanation after callLocalLLM
explanationResult(ollamaResponse) ==
  IF ollamaResponse # <<>>
  THEN parseAIFStructuredResponse(ollamaResponse)
  ELSE getSimulatedExplanation

\* the promise of `fn` settles once callLocalLLM has returned ollamaResponse
Resolve(ollamaResponse) ==
  [ai EXCEPT !.pc = "done",
             !.response = ollamaResponse,
             !.result = <<IF ai.fn = "generateChatResponse"
                          THEN chatResult(ollamaResponse)
                          ELSE explanationResult(ollamaResponse)>>]

\* generateChatResponse(...) or generateExplanation(...) is called:
\* callLocalLLM awaits isOllamaAvailable(), which sends GET /api/version
AiRequest(fn) ==
  /\ ai.pc \in {"idle", "done"}
  /\ ai' = [NoRequest EXCEPT !.fn = fn, !.pc = "probe"]
  /\ UNCHANGED <<stored, recorded, appVars, reported, quiz, callResult, match>>

\* faulty variant: the POST is sent whatever the probe said
ProbeReturns_alwaysPosts(outcome) ==
  /\ ai.pc = "probe"
  /\ ai' = [ai EXCEPT !.pc = "generate", !.posted = TRUE]
  /\ UNCHANGED <<stored, recorded, appVars, reported, quiz, callResult, match>>

\* the probe ends: response.ok, a status that is not OK, a rejected fetch, or
\* the 2 s AbortSignal.  Unless OK callLocalLLM returns null; else it sends the POST
ProbeReturns(outcome) ==
  /\ ai.pc = "probe"
  /\ IF outcome = "ok"
     THEN ai' = [ai EXCEPT !.pc = "generate", !.posted = TRUE]
     ELSE ai' = Resolve(<<>>)
  /\ UNCHANGED <<stored, recorded, appVars, reported, quiz, callResult, match>>

\* the POST /api/generate ends: OK with data.response = text (empty or missing:
\* <<>>), a status that is not OK (thrown and caught), a rejected fetch, or a
\* body response.json() rejects; all but the first make callLocalLLM return null
GenerateReturns(outcome, text) ==
  /\ ai.pc = "generate"
  /\ outcome # "ok" => text = <<>>
  /\ ai' = Resolve(text)
  /\ UNCHANGED <<stored, recorded, appVars, reported, quiz, callResult, match>>

InitAI ==
  /\ stored = NoItem
  /\ recorded = <<>>
  /\ InitApp
  /\ InitUnits

NextAI ==
  \/ \E fn \in {"generateChatResponse", "generateExplanation"} : AiRequest(fn)
  \/ \E outcome \in {"ok", "notOk", "rejected", "timeout"} : ProbeReturns(outcome)
  \/ /\ ai.pc = "generate"
     /\ \E outcome \in {"ok", "notOk", "rejected", "badJson"} :
          \E text \in (IF outcome = "ok" THEN ResponseTexts \cup {<<>>} ELSE {<<>>}) :
            GenerateReturns(outcome, text)

SpecAI == InitAI /\ [][NextAI]_vars

\* the caller shows its loading state: setIsLoadingAI(true) / setLoading(true)
\* before the await, false in the finally block that runs once the promise settled
AiLoading == ai.pc \in {"probe", "generate"}

\* What the code guarantees of the network: the probe carries
\* AbortSignal.timeout(2000), so it ends within 2 s whatever the server does.
\* The POST carries no signal; it ends when the server answers or the connection
\* breaks, which nothing in the code brings about.
SpecAIFair ==
  SpecAI /\ WF_vars(\E outcome \in {"ok", "notOk", "rejected", "timeout"} : ProbeReturns(outcome))

----------------------------------------------------------------------------
(* Properties of learning sessions and quizzes                              *)

\* C11: capture threshold. When the completion callback of a session fires with
\* score s, the topic is added to capturedTopics exactly when s >= 60 and the
\* capturedTopics the callback sees does not hold it; with s < 60 capturedTopics
\* is left alone; and the celebration view says 'captured' for the same scores.
C11_CaptureThreshold ==
  /\ [][LearningComplete =>
          LET t == Head(timers)
          IN  /\ IF t.score >= 60 /\ ~Includes(t.seen, t.topicId)
                 THEN nextCaptured' = Append(nextCaptured, t.topicId)
                 ELSE nextCaptured' = nextCaptured
              /\ t.score < 60 => UNCHANGED <<nextCaptured, capturedTopics, dirty>>
              /\ capturedTopics' = capturedTopics]_vars
  /\ [](\A k \in DOMAIN timers :
          celebrationPassed(timers[k].score) <=> timers[k].score >= 60)

\* one topic is captured and a session that ended below 60 awaits its callback
C11_Witness ==
  /\ Idle
  /\ Includes(capturedTopics, ROOT_TOPIC)
  /\ stage = "celebration"
  /\ timers # <<>>
  /\ Head(timers).score < 60
  /\ Head(timers).topicId = "linear-equations"

\* Math.round(100 * correct / n)
RoundedPercent(correct, n) == (correct * 200 + n) \div (2 * n)

\* the number of submitted answers that were correct
CorrectAnswers == Cardinality({k \in DOMAIN quiz.answered : quiz.answered[k]})

\* C12: quiz outcome range. The score handed to onComplete is
\* round(100 * correct answers / n) and lies in 0..100; no question counts twice.
C12_QuizOutcome ==
  \A k \in DOMAIN quiz.completed :
    /\ quiz.completed[k] = RoundedPercent(CorrectAnswers, quiz.n)
    /\ quiz.completed[k] \in 0..100

----------------------------------------------------------------------------
(* Properties of loading                                                    *)

\* C13: load never propagates bad data. Whatever the stored item is (absent,
\* unparseable, or parsed to something that is not a progress record), no
\* operation that loads progress throws, and what it leaves persisted is a
\* structurally valid record.
C13_LoadNeverPropagates ==
  /\ callResult # "threw"
  /\ callResult = "returned" =>
       stored.kind = "record" /\ StructurallyValid(stored.progress)

----------------------------------------------------------------------------
(* Properties of the unlock check                                           *)

\* ids that no topic of GALAXY_TOPICS has
UnknownIds == {"no-such-topic", "", "Quadratic-Equations"}

\* C14: unknown id is locked. For an id of no topic shouldUnlockTopic is false
\* whatever the persisted progress holds, the id itself captured included.
C14_UnknownIdLocked ==
  /\ UnknownIds \cap TopicIds = {}
  /\ \A id \in UnknownIds :
       /\ getTopicById(id) = <<>>
       /\ ~shouldUnlockTopic(id, Persisted.capturedTopics)

\* the persisted capturedTopics holds an id of no topic beside the root
C14_Witness ==
  /\ Includes(Persisted.capturedTopics, "no-such-topic")
  /\ Includes(Persisted.capturedTopics, ROOT_TOPIC)

----------------------------------------------------------------------------
(* Properties of keyword discovery                                          *)

\* the query as the matcher compares it: lower-cased and trimmed
Normalized(query) == trim(toLowerCase(query))

\* the entries of KEYWORD_TOPIC_MAP whose phrase occurs in the normalized query
PhrasesIn(query) ==
  {k \in DOMAIN KEYWORD_TOPIC_MAP :
     StrIncludes(Normalized(query), KEYWORD_TOPIC_MAP[k].keyword)}

\* the ids those entries map to
ExactUnion(query) ==
  UNION {Range(KEYWORD_TOPIC_MAP[k].topicIds) : k \in PhrasesIn(query)}

\* C16: exact-substring pass. The result holds the mapped ids of every keyword
\* phrase that occurs in the lower-cased, trimmed query; with 'pythagorean
\* theorem' in the query it holds 'triangles' and 'geometry-basics'.
C16_ExactSubstringPass ==
  match.called =>
    /\ ExactUnion(match.query) \subseteq Range(match.result)
    /\ StrIncludes(Normalized(match.query),
                   <<"p", "y", "t", "h", "a", "g", "o", "r", "e", "a", "n", " ",
                     "t", "h", "e", "o", "r", "e", "m">>)
         => {"triangles", "geometry-basics"} \subseteq Range(match.result)

\* a query with 'pythagorean theorem' and a second phrase of the table was matched
C16_Witness ==
  /\ match.called
  /\ Cardinality(PhrasesIn(match.query)) >= 2
  /\ {"triangles", "geometry-basics", "quadratic-equations"} \subseteq Range(match.result)

\* what the partial-token pass alone yields for the query
PartialOnly(query) ==
  LET LongWord(word) == Len(word) > 3
  IN  Range(PartialPass(SelectSeq(splitWhitespace(Normalized(query)), LongWord), 1, <<>>))

\* C17: fallback only on empty. When a keyword phrase occurs in the query the
\* result is exactly the union of the exact pass.
C17_FallbackOnlyOnEmpty ==
  (match.called /\ PhrasesIn(match.query) # {}) =>
    Range(match.result) = ExactUnion(match.query)

\* the exact pass matched and the partial pass would have added other ids
C17_Witness ==
  /\ match.called
  /\ PhrasesIn(match.query) # {}
  /\ ~(PartialOnly(match.query) \subseteq Range(match.result))

\* C18: case and outer-whitespace insensitivity. The result for a query is the
\* result for the query lower-cased and trimmed.
C18_CaseWhitespaceInsensitive ==
  match.called =>
    Range(match.result) = Range(getTopicsFromQuery(Normalized(match.query)))

\* a padded query with capitals was matched to some topic
C18_Witness ==
  /\ match.called
  /\ match.query # Normalized(match.query)
  /\ toLowerCase(match.query) # match.query
  /\ trim(match.query) # match.query
  /\ match.result # <<>>

\* C19: no duplicate-unlock events. The ids a query reports as newly unlocked
\* are the matched ids in neither unlockedTopics nor capturedTopics, they are
\* put in unlockedTopics, and no id is reported twice.
C19_NoDuplicateUnlock ==
  /\ [](NoDuplicates(reported))
  /\ [](Idle => Range(reported) \subseteq Range(unlockedTopics))
  /\ [][\A q \in UserQueries :
          QuerySubmit(q) =>
            LET delta == Range(inflight'[1].unlockedTopics)
            IN  /\ delta = {id \in Range(getTopicsFromQuery(trim(q))) :
                              /\ id \notin Range(unlockedTopics)
                              /\ id \notin Range(capturedTopics)}
                /\ delta \subseteq Range(nextUnlocked')
                /\ reported' = reported \o inflight'[1].unlockedTopics]_vars

\* two topics were reported by earlier queries and a repeated query reports nothing
C19_Witness ==
  /\ Len(reported) = 2
  /\ capturedTopics # <<>>
  /\ inflight # <<>>
  /\ inflight[1].unlockedTopics = <<>>

----------------------------------------------------------------------------
(* Properties of the AI service                                             *)

\* a string with at least one character
NonEmptyText(text) == text # <<>>

\* C20: always some text. However the probe and the generation call end,
\* generateChatResponse settles with a non-empty string and generateExplanation
\* with an explanation whose text, key points and examples are non-empty.
C20_AlwaysSomeText ==
  ai.pc = "done" =>
    /\ Len(ai.result) = 1
    /\ ai.fn = "generateChatResponse" => NonEmptyText(ai.result[1].text)
    /\ ai.fn = "generateExplanation" =>
         /\ NonEmptyText(ai.result[1].explanation)
         /\ ai.result[1].keyPoints # <<>>
         /\ ai.result[1].examples # <<>>
         /\ \A k \in DOMAIN ai.result[1].keyPoints : ai.result[1].keyPoints[k] # ""
         /\ \A k \in DOMAIN ai.result[1].examples : ai.result[1].examples[k] # ""

\* the server answered with text that has no EXAMPLES section and the
\* explanation returned is the simulated one
C20_Witness ==
  /\ ai.pc = "done"
  /\ ai.fn = "generateExplanation"
  /\ ai.posted
  /\ ai.response # <<>>
  /\ \E k \in DOMAIN ai.response : ai.response[k].header = "EXPLANATION:"
  /\ ai.result[1].source = "simulated"

\* C21: never blocks indefinitely. Every query and every explanation request
\* whose call of the AI service has begun eventually leaves its loading state
\* with a response or a fallback, also when the server answers the probe and
\* then never answers the generation request.
C21_NeverBlocks == AiLoading ~> (ai.pc = "done" /\ ai.result # <<>>)

\* C22: every quiz completion is recorded. Each completion handed to the app
\* leaves a persisted record whose quizAttempts of the topic grew by 1 and whose
\* quizScores of the topic is at least the score. The app starts without an
\* item, so every captured topic was captured by a delivered completion that
\* passed: once the effects have settled its attempts are at least 1 and its
\* best score at least the pass mark.
C22_CompletionRecorded ==
  Idle /\ stored.kind = "record" =>
    \A c \in DOMAIN capturedTopics :
      /\ Get(Persisted.quizAttempts, capturedTopics[c]) >= 1
      /\ Get(Persisted.quizScores, capturedTopics[c]) >= PASS_SCORE

\* C23: only unlocked topics can be opened from the map. A topic is open in a
\* learning session only when its recomputed unlocked flag is true; a topic that
\* a captured topic lists, and that does not list it back, stays closed.
C23_OnlyUnlockedOpened ==
  Idle /\ currentTopic # <<>> => topics[TopicIndex(currentTopic[1])].unlocked

\* C24: recomputation pass. Every change of capturedTopics or unlockedTopics
\* schedules the pass; the pass gives each node captured = (id in capturedTopics)
\* and unlocked = (explicitly unlocked or one of its connectedTopics captured),
\* whatever the node's flags were; and once the effects of a render have run the
\* list handed to the map carries these flags.
C24_RecomputationPass ==
  /\ [][(capturedTopics' # capturedTopics \/ unlockedTopics' # unlockedTopics) /\ mounted'
          => Includes(effects', "recompute")]_vars
  /\ [][RecomputeEffect =>
          topics' = [i \in DOMAIN GALAXY_TOPICS |->
                       [unlocked |-> UnlockRule(i, capturedTopics, unlockedTopics),
                        captured |-> GALAXY_TOPICS[i].id \in Range(capturedTopics)]]]_vars
  /\ [](mounted /\ effects = <<>> =>
          \A i \in DOMAIN GALAXY_TOPICS :
            /\ topics[i].captured <=> Includes(capturedTopics, GALAXY_TOPICS[i].id)
            /\ topics[i].unlocked <=> UnlockRule(i, capturedTopics, unlockedTopics))

\* the pass has run after a capture: the root's node is captured, and its
\* neighbour's node is unlocked and not captured
C24_Witness ==
  /\ mounted /\ effects = <<>>
  /\ Len(capturedTopics) = 1
  /\ topics[TopicIndex("quadratic-equations")].captured
  /\ topics[TopicIndex("quadratic-formula")].unlocked
  /\ ~topics[TopicIndex("quadratic-formula")].captured
  /\ ~GALAXY_TOPICS[TopicIndex("quadratic-formula")].unlocked

\* C25: unknown topic id is a no-op for capture. recordQuizResult called with an
\* id of no topic adds nothing to capturedTopics: the persisted capturedTopics
\* holds ids of defined topics only.
C25_CapturedAreTopics == Range(Persisted.capturedTopics) \subseteq TopicIds

\* C26: probe before call. The generation POST of a request is sent only by the
\* step in which the probe of that request returns OK; when the probe returns a
\* status that is not OK, is rejected or runs into its timeout, the request ends
\* without a POST and callLocalLLM returns null.
C26_ProbeBeforeCall ==
  /\ [](ai.pc \in {"idle", "probe"} => ~ai.posted)
  /\ [][ai'.posted /\ ~ai.posted => ai.pc = "probe" /\ ProbeReturns("ok")]_vars
  /\ [][\A outcome \in {"notOk", "rejected", "timeout"} :
          ProbeReturns(outcome) =>
            ~ai'.posted /\ ai'.pc = "done" /\ ai'.response = <<>>]_vars
  /\ [](ai.pc = "done" /\ ~ai.posted => ai.response = <<>>)

\* a chat request ended on a failed probe: no POST was sent and the answer is
\* the simulated one
C26_Witness ==
  /\ ai.pc = "done"
  /\ ~ai.posted
  /\ ai.fn = "generateChatResponse"
  /\ ai.response = <<>>
  /\ ai.result = <<simulateChatResponse>>

----------------------------------------------------------------------------
(* Properties of the application's start and of delayed completions         *)

\* the effects of the mount are running: the load effect is still to run, or it
\* has queued its update and the first render's other effects are running.
\* Every handler waits for the effects, so no later render has effects to run
\* while an update is queued.
MountSequence ==
  mounted /\ effects # <<>> /\ (Head(effects) = "load" \/ dirty)

\* C27: startup never clobbers saved progress. When the app starts on a
\* persisted record, no step of the mount effect sequence removes an id from the
\* persisted capturedTopics or unlockedTopics.
C27_StartupKeepsProgress ==
  [][MountSequence /\ stored.kind = "record" =>
       /\ Range(stored.progress.capturedTopics) \subseteq Range(loadOrDefault(stored').capturedTopics)
       /\ Range(stored.progress.unlockedTopics) \subseteq Range(loadOrDefault(stored').unlockedTopics)]_vars

\* C28: no duplicate captures under delayed callbacks. Whatever the order of
\* quiz completions and of their delayed onComplete callbacks, the app's
\* capturedTopics holds no topic id twice.
C28_NoDuplicateInMemory == NoDuplicates(capturedTopics) /\ NoDuplicates(nextCaptured)

\* the topics whose static definition has unlocked: true
StaticUnlocked == {i \in DOMAIN GALAXY_TOPICS : GALAXY_TOPICS[i].unlocked}

\* for each topic id, the topics that have it in their own connectedTopics
ListedBy ==
  [id \in TopicIds |->
     {i \in DOMAIN GALAXY_TOPICS : Includes(GALAXY_TOPICS[i].connectedTopics, id)}]

\* the topics the unlock rule unlocks on everything the app holds: the persisted
\* arrays together with the arrays in memory, queued updates included.  An id of
\* no topic unlocks nothing.
KnownUnlocked ==
  LET captured == (Range(Persisted.capturedTopics) \cup Range(nextCaptured)) \cap TopicIds
      unlocked == (Range(Persisted.unlockedTopics) \cup Range(nextUnlocked)) \cap TopicIds
  IN  StaticUnlocked \cup {TopicIndex(id) : id \in unlocked}
                     \cup UNION {ListedBy[id] : id \in captured}

StageAdvances ==
  {<<"explanation", "visualization">>, <<"visualization", "quiz">>, <<"quiz", "celebration">>}

\* the page goes on: no reload and no crashed render in this step
PageStays == mounted' /\ (effects' = <<>> \/ Head(effects') # "load")

\* C30: completion delivered exactly once. While a session stays open its stage
\* changes only one step along explanation, visualization, quiz, celebration.
\* Finishing a quiz, and nothing else, adds one pending completion, made in the
\* quiz stage with the session's topic id; a pending completion leaves only by
\* being delivered, once, in the order made; closing the session leaves it
\* pending; and capturedTopics gains an id only as a completion is delivered.
C30_DeliveredOnce ==
  /\ [][currentTopic # <<>> /\ currentTopic' # <<>> /\ stage' # stage
          => <<stage, stage'>> \in StageAdvances]_vars
  /\ [][(stage = "quiz" /\ stage' = "celebration") \/ Len(timers') > Len(timers)
          => /\ stage = "quiz" /\ stage' = "celebration"
             /\ currentTopic # <<>> /\ currentTopic' = currentTopic
             /\ Len(timers') = Len(timers) + 1
             /\ SubSeq(timers', 1, Len(timers)) = timers
             /\ timers'[Len(timers')].topicId = currentTopic[1]]_vars
  /\ [][timers' # timers /\ Len(timers') <= Len(timers) /\ PageStays
          => /\ timers' = Tail(timers)
             /\ \/ nextCaptured' = nextCaptured
                \/ nextCaptured' = Append(nextCaptured, Head(timers).topicId)]_vars
  /\ [][currentTopic # <<>> /\ currentTopic' = <<>> /\ PageStays
          => timers' = timers]_vars
  /\ [][Len(nextCaptured') > Len(nextCaptured) /\ (effects = <<>> \/ Head(effects) # "load")
          => timers # <<>> /\ timers' = Tail(timers)]_vars

\* the session was closed during the celebration; the completion of a passed
\* quiz is still pending and can be delivered
C30_Witness ==
  /\ Idle
  /\ currentTopic = <<>>
  /\ Len(timers) = 1
  /\ passes(timers[1].score)
  /\ ~Includes(capturedTopics, timers[1].topicId)

====
